---- MODULE Spec2Model ----
(***************************************************************************)
(* A model of the u-blox GPS driver src/src/main/io/gps_ublox.c: the UBX   *)
(* frame decoder (gpsNewFrameUBLOX), the message-to-solution mapper        *)
(* (gpsParceFrameUBLOX), the command encoder with its acknowledge tracker  *)
(* (sendConfigMessageUBLOX), the hardware-version decoder and the          *)
(* configuration protothreads.  Bytes are integers 0..255; the receive     *)
(* buffer is the byte array the C code aliases its payload structs onto,   *)
(* and every field is read from its byte offset, little-endian.            *)
(***************************************************************************)
EXTENDS Integers, Sequences, FiniteSets, TLC

VARIABLES
    \* frame decoder (file-scope statics, lines 349-358, 361, 394-405)
    _step, _skip_packet, _class, _msg_id, _payload_length, _payload_counter,
    _ck_a, _ck_b, _buffer, gpsStats,
    \* solution mapper, acknowledge tracker, capability state (lines 360-372)
    gpsSol, next_fix_type, _new_position, _new_speed,
    _ack_state, _ack_waiting_msg, capGalileo, gpsState,
    \* protothreads and the serial port
    semNewDataReady, thr, port,
    \* command encoder: the send buffer (lines 387-391) and the frames written to
    \* the port that the module has not answered yet
    send_buffer, tx,
    \* the module at the other end of the line
    module,
    \* the serial line towards the driver: bytes waiting to be read
    rx,
    \* observation (history) variables, written by no program statement
    parsed, hist, inflight, nSent, drv

decVars == <<_step, _skip_packet, _class, _msg_id, _payload_length,
             _payload_counter, _ck_a, _ck_b, _buffer, gpsStats>>
mapVars == <<gpsSol, next_fix_type, _new_position, _new_speed,
             _ack_state, _ack_waiting_msg, capGalileo, gpsState>>
thrVars == <<semNewDataReady, thr, port>>
cmdVars == <<send_buffer, tx, module>>
obsVars == <<parsed, hist, inflight, nSent, drv>>
vars == <<decVars, mapVars, thrVars, cmdVars, rx, obsVars>>

(***************************************************************************)
(* Program constants                                                       *)
(***************************************************************************)
GPS_CFG_CMD_TIMEOUT_MS == 200
GPS_VERSION_RETRY_TIMES == 2
\* the entries of baudInitDataNMEA, lines 92-99
GPS_BAUDRATE_COUNT == 6
MAX_UBLOX_PAYLOAD_SIZE == 256
UBLOX_BUFFER_SIZE == MAX_UBLOX_PAYLOAD_SIZE
\* sizeof(send_buffer): the ubx_message member, a 6-byte header and the
\* 4 + 8 * MAX_GNSS bytes of ubx_payload
SEND_BUFFER_SIZE == 66

UBX_HW_VERSION_UNKNOWN == 0
UBX_HW_VERSION_UBLOX5 == 500
UBX_HW_VERSION_UBLOX6 == 600
UBX_HW_VERSION_UBLOX7 == 700
UBX_HW_VERSION_UBLOX8 == 800
UBX_HW_VERSION_UBLOX9 == 900
UBX_HW_VERSION_UBLOX10 == 1000

PREAMBLE1 == 181
PREAMBLE2 == 98
CLASS_NAV == 1
CLASS_ACK == 5
CLASS_CFG == 6
CLASS_MON == 10
MSG_CLASS_UBX == 1
MSG_CLASS_NMEA == 240
MSG_VER == 4
MSG_ACK_NACK == 0
MSG_ACK_ACK == 1
MSG_NMEA_GGA == 0
MSG_NMEA_GLL == 1
MSG_NMEA_GSA == 2
MSG_NMEA_GSV == 3
MSG_NMEA_RMC == 4
MSG_NMEA_VGS == 5
MSG_POSLLH == 2
MSG_STATUS == 3
MSG_SOL == 6
MSG_PVT == 7
MSG_VELNED == 18
MSG_TIMEUTC == 33
MSG_SVINFO == 48
MSG_NAV_SAT == 53
MSG_NAV_SIG == 53
MSG_CFG_RATE == 8
MSG_CFG_SET_RATE == 1
MSG_CFG_NAV_SETTINGS == 36
MSG_CFG_SBAS == 22
MSG_CFG_GNSS == 62

FIX_2D == 2
FIX_3D == 3
NAV_STATUS_FIX_VALID == 1

UBX_ACK_WAITING == 0
UBX_ACK_GOT_ACK == 1
UBX_ACK_GOT_NAK == 2

\* gpsFixType_e of io/gps.h, used by gpsMapFixType and the mapper
GPS_NO_FIX == 0
GPS_FIX_2D == 1
GPS_FIX_3D == 2

(***************************************************************************)
(* Integer helpers: C arithmetic on fixed-width integers                   *)
(***************************************************************************)
Byte == 0..255

\* C's integer division truncates toward zero (b > 0)
CDiv(a, b) == IF a >= 0 THEN a \div b ELSE -((-a) \div b)

\* conversion to uint16_t / uint8_t
ToU16(x) == x % 65536
ToU8(x) == x % 256

\* bit n of an unsigned value
Bit(v, n) == (v \div (2 ^ n)) % 2 = 1

\* little-endian fields of the receive buffer, as the aliased structs read them
BufU8(buf, off) == buf[off]
BufU16(buf, off) == buf[off] + 256 * buf[off + 1]
\* an int32_t field (TLC's integers are 32 bits wide: the top byte is signed first)
BufS32(buf, off) ==
    buf[off] + 256 * buf[off + 1] + 65536 * buf[off + 2]
    + 16777216 * (IF buf[off + 3] >= 128 THEN buf[off + 3] - 256 ELSE buf[off + 3])
\* a uint32_t field divided by d, computed on its 16-bit halves
BufU32Div(buf, off, d) ==
    LET hi == BufU16(buf, off + 2)
        lo == BufU16(buf, off)
    IN  (hi \div d) * 65536 + ((hi % d) * 65536 + lo) \div d
\* a uint32_t field as a bit pattern: the value itself below 2^31
BufU32(buf, off) == BufS32(buf, off)

(***************************************************************************)
(* Checksum engine, lines 407-414                                          *)
(***************************************************************************)
\* a faulty variant of the next step: *ck_b += *data
ChecksumStepMut(ck, byte) == <<(ck[1] + byte) % 256, (ck[2] + byte) % 256>>
\* one iteration of the loop: *ck_a += *data; *ck_b += *ck_a
ChecksumStep(ck, byte) ==
    LET a == (ck[1] + byte) % 256 IN <<a, (ck[2] + a) % 256>>

\* the loop over len bytes of data, run as its first half followed by its
\* second half
RECURSIVE _update_checksum(_, _, _)
_update_checksum(data, len, ck) ==
    IF len = 0 THEN ck
    ELSE IF len = 1 THEN ChecksumStep(ck, data[1])
    ELSE LET h == len \div 2
             first == _update_checksum(SubSeq(data, 1, h), h, ck)
         IN  IF first \in Byte \X Byte
             THEN _update_checksum(SubSeq(data, h + 1, len), len - h, first)
             ELSE first

(***************************************************************************)
(* gpsMapFixType, lines 416-423                                            *)
(***************************************************************************)
\* a faulty variant that ignores fixValid
gpsMapFixTypeMut(fixValid, ubloxFixType) ==
    IF ubloxFixType = FIX_2D THEN GPS_FIX_2D
    ELSE IF ubloxFixType = FIX_3D THEN GPS_FIX_3D
    ELSE GPS_NO_FIX
gpsMapFixType(fixValid, ubloxFixType) ==
    IF fixValid /\ ubloxFixType = FIX_2D THEN GPS_FIX_2D
    ELSE IF fixValid /\ ubloxFixType = FIX_3D THEN GPS_FIX_3D
    ELSE GPS_NO_FIX

\* (fix_status & NAV_STATUS_FIX_VALID) converted to bool
FixValid(fix_status) == Bit(fix_status, 0)

(***************************************************************************)
(* Validity macros, lines 66-68                                            *)
(***************************************************************************)
UBX_VALID_GPS_DATE(valid) == Bit(valid, 0)
UBX_VALID_GPS_TIME(valid) == Bit(valid, 1)
\* a faulty variant: either bit is enough
UBX_VALID_GPS_DATE_TIME_Mut(valid) ==
    UBX_VALID_GPS_DATE(valid) \/ UBX_VALID_GPS_TIME(valid)
UBX_VALID_GPS_DATE_TIME(valid) ==
    UBX_VALID_GPS_DATE(valid) /\ UBX_VALID_GPS_TIME(valid)

\* gpsConstrainEPE / gpsConstrainHDOP of io/gps.c: clamp to the representable range
gpsConstrainEPE(epe) == IF epe > 9999 THEN 9999 ELSE epe
gpsConstrainHDOP(hdop) == IF hdop > 9999 THEN 9999 ELSE hdop

(***************************************************************************)
(* gpsDecodeHardwareVersion, lines 568-601                                 *)
(***************************************************************************)
\* the string literals of the table, as character codes
HW_00040005 == <<48, 48, 48, 52, 48, 48, 48, 53>>
HW_00040007 == <<48, 48, 48, 52, 48, 48, 48, 55>>
HW_00070000 == <<48, 48, 48, 55, 48, 48, 48, 48>>
HW_00080000 == <<48, 48, 48, 56, 48, 48, 48, 48>>
HW_00190000 == <<48, 48, 49, 57, 48, 48, 48, 48>>
HW_000A0000 == <<48, 48, 48, 65, 48, 48, 48, 48>>

\* character i (from 0) of a string literal: its terminating NUL after the text
LitChar(lit, i) == IF i < Len(lit) THEN lit[i + 1] ELSE 0

\* strncmp(szBuf, lit, n) == 0, szBuf the n bytes of buf from off: the strings
\* agree on every character up to and including the first NUL, or on all n
RECURSIVE StrncmpEqFrom(_, _, _, _, _)
StrncmpEqFrom(buf, off, lit, n, i) ==
    IF i >= n THEN TRUE
    ELSE IF buf[off + i] # LitChar(lit, i) THEN FALSE
    ELSE IF buf[off + i] = 0 THEN TRUE
    ELSE StrncmpEqFrom(buf, off, lit, n, i + 1)

\* a faulty variant: compares only the characters of the literal (a prefix match)
StrncmpEqMut(buf, off, lit, n) == StrncmpEqFrom(buf, off, lit, Len(lit), 0)
StrncmpEq(buf, off, lit, n) == StrncmpEqFrom(buf, off, lit, n, 0)

gpsDecodeHardwareVersion(buf, off, nBufSize) ==
    IF StrncmpEq(buf, off, HW_00040005, nBufSize) THEN UBX_HW_VERSION_UBLOX5
    ELSE IF StrncmpEq(buf, off, HW_00040007, nBufSize) THEN UBX_HW_VERSION_UBLOX6
    ELSE IF StrncmpEq(buf, off, HW_00070000, nBufSize) THEN UBX_HW_VERSION_UBLOX7
    ELSE IF StrncmpEq(buf, off, HW_00080000, nBufSize) THEN UBX_HW_VERSION_UBLOX8
    ELSE IF StrncmpEq(buf, off, HW_00190000, nBufSize) THEN UBX_HW_VERSION_UBLOX9
    ELSE IF StrncmpEq(buf, off, HW_000A0000, nBufSize) THEN UBX_HW_VERSION_UBLOX10
    ELSE UBX_HW_VERSION_UNKNOWN

(***************************************************************************)
(* The Galileo scan of the MSG_VER case, lines 693-702                     *)
(***************************************************************************)
GAL == <<71, 65, 76>>

\* strnstr(buf + j, "GAL", 30) reads buf[j], buf[j+1], ... until it finds the
\* text, meets a NUL or has searched 30 characters.  Bytes at index 256 and up
\* lie outside _buffer.
BlockEnd(buf, j) ==
    LET nuls == {k \in j..(j + 29) : k < UBLOX_BUFFER_SIZE /\ buf[k] = 0}
    IN  IF nuls = {} THEN j + 30
        ELSE CHOOSE k \in nuls : \A m \in nuls : k <= m

\* the text found wholly inside the buffer and inside the searched stretch
BlockHasGAL(buf, j) ==
    \E p \in j..(j + 27) :
        /\ p + 2 < BlockEnd(buf, j)
        /\ p + 2 < UBLOX_BUFFER_SIZE
        /\ buf[p] = GAL[1] /\ buf[p + 1] = GAL[2] /\ buf[p + 2] = GAL[3]

\* the search runs past the end of _buffer (no text and no NUL before it)
BlockOverruns(buf, j) ==
    /\ ~BlockHasGAL(buf, j)
    /\ BlockEnd(buf, j) > UBLOX_BUFFER_SIZE

ScanStarts(len) == {j \in 40..(UBLOX_BUFFER_SIZE + 29) : j < len /\ (j - 40) % 30 = 0}

\* the values capGalileo may hold after the loop: a block overrunning the
\* buffer reads memory the model does not hold, so both results are possible
GalileoOutcomes(buf, len, cap) ==
    LET js == ScanStarts(len)
        hit == \E j \in js : BlockHasGAL(buf, j)
        firstHit == IF hit THEN CHOOSE j \in js : BlockHasGAL(buf, j)
                                   /\ \A m \in js : BlockHasGAL(buf, m) => j <= m
                    ELSE UBLOX_BUFFER_SIZE + 30
        wild == \E j \in js : j < firstHit /\ BlockOverruns(buf, j)
    IN  IF wild THEN {TRUE, cap} \cup (IF hit THEN {TRUE} ELSE {})
        ELSE IF hit THEN {TRUE} ELSE {cap}

\* _buffer.ver.swVersion[9] > '2': plain char is unsigned on the ARM targets and
\* signed elsewhere, so a byte of 128 and up compares either way
SwVersionGate(b) == IF b >= 128 THEN {TRUE, FALSE} ELSE {b > 50}

(***************************************************************************)
(* gpsParceFrameUBLOX, lines 603-727                                       *)
(***************************************************************************)
\* The value of the switch on _msg_id (lines 605-717): the solution, the
\* pending fix type, the two latches, the ack state and the hardware version
\* as the selected case leaves them, and whether a case other than default ran.
SwitchKeep ==
    [sol |-> gpsSol, nft |-> next_fix_type, np |-> _new_position,
     ns |-> _new_speed, ack |-> _ack_state, hw |-> gpsState.hwVersion,
     scan |-> FALSE, known |-> TRUE]

\* case MSG_POSLLH, lines 606-616
CasePOSLLH ==
    [SwitchKeep EXCEPT
        !.sol = [gpsSol EXCEPT
            !.llh = [lon |-> BufS32(_buffer, 4), lat |-> BufS32(_buffer, 8),
                     alt |-> CDiv(BufS32(_buffer, 16), 10)],
            !.eph = gpsConstrainEPE(BufU32Div(_buffer, 20, 10)),
            !.epv = gpsConstrainEPE(BufU32Div(_buffer, 24, 10)),
            !.flags.validEPE = 1,
            !.fixType = IF next_fix_type # GPS_NO_FIX THEN next_fix_type ELSE @],
        !.np = TRUE]

\* a faulty variant of the next case: every derived fix type is published at
\* once
CaseSTATUSMut ==
    LET nft == gpsMapFixType(FixValid(BufU8(_buffer, 5)), BufU8(_buffer, 4))
    IN  [SwitchKeep EXCEPT !.nft = nft, !.sol = [gpsSol EXCEPT !.fixType = nft]]
\* case MSG_STATUS, lines 617-621
CaseSTATUS ==
    LET nft == gpsMapFixType(FixValid(BufU8(_buffer, 5)), BufU8(_buffer, 4))
    IN  [SwitchKeep EXCEPT
            !.nft = nft,
            !.sol = [gpsSol EXCEPT !.fixType = IF nft = GPS_NO_FIX THEN GPS_NO_FIX ELSE @]]

\* case MSG_SOL, lines 622-628
CaseSOL ==
    LET nft == gpsMapFixType(FixValid(BufU8(_buffer, 11)), BufU8(_buffer, 10))
    IN  [SwitchKeep EXCEPT
            !.nft = nft,
            !.sol = [gpsSol EXCEPT
                !.fixType = IF nft = GPS_NO_FIX THEN GPS_NO_FIX ELSE @,
                !.numSat = BufU8(_buffer, 47),
                !.hdop = gpsConstrainHDOP(BufU16(_buffer, 44))]]

\* case MSG_VELNED, lines 629-638
CaseVELNED ==
    [SwitchKeep EXCEPT
        !.sol = [gpsSol EXCEPT
            !.groundSpeed = BufU32(_buffer, 20),
            !.groundCourse = ToU16(CDiv(BufS32(_buffer, 24), 10000)),
            !.velNED = <<BufS32(_buffer, 4), BufS32(_buffer, 8), BufS32(_buffer, 12)>>,
            !.flags.validVelNE = 1,
            !.flags.validVelD = 1],
        !.ns = TRUE]

\* the timestamp assignments shared by lines 641-647 and 674-680
TimeFrom(year, month, day, hour, min, sec, nano) ==
    [year |-> year, month |-> month, day |-> day, hours |-> hour,
     minutes |-> min, seconds |-> sec, millis |-> CDiv(nano, 1000 * 1000)]

\* case MSG_TIMEUTC, lines 639-653
CaseTIMEUTC ==
    [SwitchKeep EXCEPT
        !.sol = IF UBX_VALID_GPS_DATE_TIME(BufU8(_buffer, 19))
                THEN [gpsSol EXCEPT
                        !.time = TimeFrom(BufU16(_buffer, 12), BufU8(_buffer, 14),
                                          BufU8(_buffer, 15), BufU8(_buffer, 16),
                                          BufU8(_buffer, 17), BufU8(_buffer, 18),
                                          BufS32(_buffer, 8)),
                        !.flags.validTime = 1]
                ELSE [gpsSol EXCEPT !.flags.validTime = 0]]

\* case MSG_PVT, lines 654-689
CasePVT ==
    LET nft == gpsMapFixType(FixValid(BufU8(_buffer, 21)), BufU8(_buffer, 20))
        ok == UBX_VALID_GPS_DATE_TIME(BufU8(_buffer, 11))
    IN  [SwitchKeep EXCEPT
            !.nft = nft,
            !.sol = [gpsSol EXCEPT
                !.fixType = nft,
                !.llh = [lon |-> BufS32(_buffer, 24), lat |-> BufS32(_buffer, 28),
                         alt |-> CDiv(BufS32(_buffer, 36), 10)],
                !.velNED = <<CDiv(BufS32(_buffer, 48), 10),
                             CDiv(BufS32(_buffer, 52), 10),
                             CDiv(BufS32(_buffer, 56), 10)>>,
                !.groundSpeed = CDiv(BufS32(_buffer, 60), 10),
                !.groundCourse = ToU16(CDiv(BufS32(_buffer, 64), 10000)),
                !.numSat = BufU8(_buffer, 23),
                !.eph = gpsConstrainEPE(BufU32Div(_buffer, 40, 10)),
                !.epv = gpsConstrainEPE(BufU32Div(_buffer, 44, 10)),
                !.hdop = gpsConstrainHDOP(BufU16(_buffer, 76)),
                !.flags = [validVelNE |-> 1, validVelD |-> 1, validEPE |-> 1,
                           validTime |-> IF ok THEN 1 ELSE 0],
                !.time = IF ok
                         THEN TimeFrom(BufU16(_buffer, 4), BufU8(_buffer, 6),
                                       BufU8(_buffer, 7), BufU8(_buffer, 8),
                                       BufU8(_buffer, 9), BufU8(_buffer, 10),
                                       BufS32(_buffer, 16))
                         ELSE @],
            !.np = TRUE,
            !.ns = TRUE]

\* case MSG_VER, lines 690-704: the hardware version; scan tells whether the
\* Galileo scan may run (it may when some outcome of the gate is true)
CaseVER ==
    IF _class = CLASS_MON
    THEN LET hw == gpsDecodeHardwareVersion(_buffer, 30, 10)
         IN  [SwitchKeep EXCEPT !.hw = hw, !.scan = hw >= UBX_HW_VERSION_UBLOX8]
    ELSE SwitchKeep

\* a faulty variant of the next condition: the named id is not compared
AckMatchesMut(ackedMsg) == _ack_state = UBX_ACK_WAITING
\* the condition of lines 706 and 711
AckMatches(ackedMsg) ==
    (_ack_state = UBX_ACK_WAITING) /\ (ackedMsg = _ack_waiting_msg)

\* case MSG_ACK_ACK, lines 705-709
CaseACK ==
    [SwitchKeep EXCEPT
        !.ack = IF AckMatches(BufU8(_buffer, 1)) THEN UBX_ACK_GOT_ACK ELSE @]

\* case MSG_ACK_NACK, lines 710-714
CaseNACK ==
    [SwitchKeep EXCEPT
        !.ack = IF AckMatches(BufU8(_buffer, 1)) THEN UBX_ACK_GOT_NAK ELSE @]

\* default: return false, lines 715-716
CaseDefault == [SwitchKeep EXCEPT !.known = FALSE]

MsgSwitch ==
    CASE _msg_id = MSG_POSLLH -> CasePOSLLH
      [] _msg_id = MSG_STATUS -> CaseSTATUS
      [] _msg_id = MSG_SOL -> CaseSOL
      [] _msg_id = MSG_VELNED -> CaseVELNED
      [] _msg_id = MSG_TIMEUTC -> CaseTIMEUTC
      [] _msg_id = MSG_PVT -> CasePVT
      [] _msg_id = MSG_VER -> CaseVER
      [] _msg_id = MSG_ACK_ACK -> CaseACK
      [] _msg_id = MSG_ACK_NACK -> CaseNACK
      [] OTHER -> CaseDefault

\* a faulty variant of the next test: one latch is enough
EpochCompleteMut(np, ns) == np \/ ns
\* the test of line 721
EpochComplete(np, ns) == np /\ ns

\* Observation of one call: which frames wrote position and velocity (their
\* time-of-week field), what was processed since the last completed epoch, and
\* whether a frame with the acknowledge (negative-acknowledge) message id that
\* names the id of the last command was processed since that command was sent
HistAfterParse(r, done) ==
    LET tow == BufU32(_buffer, 0)
        isPos == _msg_id \in {MSG_POSLLH, MSG_PVT}
        isVel == _msg_id \in {MSG_VELNED, MSG_PVT}
        named == BufU8(_buffer, 1) = _ack_waiting_msg
        pos == hist.posSeen \/ isPos
        vel == hist.velSeen \/ isVel
    IN  [hist EXCEPT
            !.parseCalls = @ + 1,
            !.lastClass = _class,
            !.lastId = _msg_id,
            !.posTow = IF isPos THEN tow ELSE @,
            !.velTow = IF isVel THEN tow ELSE @,
            !.doneWith = [pos |-> pos, vel |-> vel],
            !.posSeen = IF done THEN FALSE ELSE pos,
            !.velSeen = IF done THEN FALSE ELSE vel,
            !.solBefore = gpsSol,
            !.ackBefore = _ack_state,
            !.hwBefore = gpsState.hwVersion,
            !.galBefore = capGalileo,
            !.ackSince = @ \/ (_msg_id = MSG_ACK_ACK /\ named),
            !.nakSince = @ \/ (_msg_id = MSG_ACK_NACK /\ named),
            !.doneAt = IF done THEN thr.state ELSE @]

gpsParceFrameUBLOX ==
    LET r == MsgSwitch
        done == r.known /\ EpochComplete(r.np, r.ns)
    IN  /\ gpsSol' = r.sol
        /\ next_fix_type' = r.nft
        /\ _ack_state' = r.ack
        /\ gpsState' = [gpsState EXCEPT !.hwVersion = r.hw]
        /\ \E gate \in (IF r.scan THEN SwVersionGate(BufU8(_buffer, 9)) ELSE {FALSE}) :
              capGalileo' \in (IF gate
                               THEN GalileoOutcomes(_buffer, _payload_length, capGalileo)
                               ELSE {capGalileo})
        /\ _new_position' = IF done THEN FALSE ELSE r.np
        /\ _new_speed' = IF done THEN FALSE ELSE r.ns
        /\ parsed' = done
        /\ hist' = HistAfterParse(r, done)
        /\ UNCHANGED _ack_waiting_msg

(***************************************************************************)
(* gpsNewFrameUBLOX, lines 729-817                                         *)
(***************************************************************************)
\* a faulty variant of the next test: off by one
LengthTooBigMut(len) == len > MAX_UBLOX_PAYLOAD_SIZE + 1
\* line 766
LengthTooBig(len) == len > MAX_UBLOX_PAYLOAD_SIZE

\* line 780
BufferHasRoom(counter) == counter < MAX_UBLOX_PAYLOAD_SIZE

\* a faulty variant of the next test: one payload byte too many
PayloadDoneMut(counter, len) == counter = len
\* line 784: the comparison is made in int, before the counter is increased
PayloadDone(counter, len) == counter = len - 1

\* _ck_b += (_ck_a += data)
FeedChecksum(data) ==
    /\ _ck_a' = ChecksumStep(<<_ck_a, _ck_b>>, data)[1]
    /\ _ck_b' = ChecksumStep(<<_ck_a, _ck_b>>, data)[2]

NoParse == /\ parsed' = FALSE
           /\ UNCHANGED mapVars

\* a faulty variant of the next case: the skip flag is left as it is
Step0Mut(data) ==
    /\ _step = 0
    /\ _step' = IF data = PREAMBLE1 THEN 1 ELSE 0
    /\ UNCHANGED <<_skip_packet, _class, _msg_id, _payload_length, _payload_counter,
                   _ck_a, _ck_b, _buffer, gpsStats, hist>>
    /\ NoParse
\* case 0, lines 734-739
Step0(data) ==
    /\ _step = 0
    /\ IF data = PREAMBLE1
       THEN _skip_packet' = FALSE /\ _step' = 1
       ELSE UNCHANGED <<_skip_packet, _step>>
    /\ UNCHANGED <<_class, _msg_id, _payload_length, _payload_counter,
                   _ck_a, _ck_b, _buffer, gpsStats, hist>>
    /\ NoParse

\* a faulty variant of the next case: a first sync byte met here is taken as
\* the start of a frame
Step1Mut(data) ==
    /\ _step = 1
    /\ _step' = IF data = PREAMBLE2 THEN 2 ELSE IF data = PREAMBLE1 THEN 1 ELSE 0
    /\ UNCHANGED <<_skip_packet, _class, _msg_id, _payload_length,
                   _payload_counter, _ck_a, _ck_b, _buffer, gpsStats, hist>>
    /\ NoParse
\* case 1, lines 740-746
Step1(data) ==
    /\ _step = 1
    /\ _step' = IF data # PREAMBLE2 THEN 0 ELSE 2
    /\ UNCHANGED <<_skip_packet, _class, _msg_id, _payload_length,
                   _payload_counter, _ck_a, _ck_b, _buffer, gpsStats, hist>>
    /\ NoParse

\* case 2, lines 747-751
Step2(data) ==
    /\ _step = 2
    /\ _step' = 3
    /\ _class' = data
    /\ _ck_a' = data /\ _ck_b' = data
    /\ UNCHANGED <<_skip_packet, _msg_id, _payload_length, _payload_counter,
                   _buffer, gpsStats, hist>>
    /\ NoParse

\* case 3, lines 752-756
Step3(data) ==
    /\ _step = 3
    /\ _step' = 4
    /\ FeedChecksum(data)
    /\ _msg_id' = data
    /\ UNCHANGED <<_skip_packet, _class, _payload_length, _payload_counter,
                   _buffer, gpsStats, hist>>
    /\ NoParse

\* case 4, lines 757-761
Step4(data) ==
    /\ _step = 4
    /\ _step' = 5
    /\ FeedChecksum(data)
    /\ _payload_length' = data
    /\ UNCHANGED <<_skip_packet, _class, _msg_id, _payload_counter,
                   _buffer, gpsStats, hist>>
    /\ NoParse

\* case 5, lines 762-777: _payload_length |= (uint16_t)(data << 8); the low
\* byte is below 256, so the bitwise or adds
Step5(data) ==
    LET len == _payload_length + ToU16(data * 256) IN
    /\ _step = 5
    /\ FeedChecksum(data)
    /\ _payload_length' = len
    /\ IF LengthTooBig(len)
       THEN /\ gpsStats' = [gpsStats EXCEPT !.errors = @ + 1]
            /\ _step' = 0
            /\ UNCHANGED _payload_counter
       ELSE /\ _payload_counter' = 0
            /\ _step' = IF len = 0 THEN 7 ELSE 6
            /\ UNCHANGED gpsStats
    /\ UNCHANGED <<_skip_packet, _class, _msg_id, _buffer, hist>>
    /\ NoParse

\* case 6, lines 778-788
Step6(data) ==
    /\ _step = 6
    /\ FeedChecksum(data)
    /\ IF BufferHasRoom(_payload_counter)
       THEN /\ _buffer' = [_buffer EXCEPT ![_payload_counter] = data]
            /\ hist' = [hist EXCEPT !.stores = @ + 1, !.storeIdx = _payload_counter]
       ELSE UNCHANGED <<_buffer, hist>>
    /\ _step' = IF PayloadDone(_payload_counter, _payload_length) THEN 7 ELSE 6
    /\ _payload_counter' = ToU16(_payload_counter + 1)
    /\ UNCHANGED <<_skip_packet, _class, _msg_id, _payload_length, gpsStats>>
    /\ NoParse

\* case 7, lines 789-796
Step7(data) ==
    /\ _step = 7
    /\ IF _ck_a # data
       THEN /\ _skip_packet' = TRUE
            /\ gpsStats' = [gpsStats EXCEPT !.errors = @ + 1]
            /\ _step' = 0
       ELSE /\ _step' = 8
            /\ UNCHANGED <<_skip_packet, gpsStats>>
    /\ UNCHANGED <<_class, _msg_id, _payload_length, _payload_counter,
                   _ck_a, _ck_b, _buffer, hist>>
    /\ NoParse

\* case 8, lines 797-813
Step8(data) ==
    /\ _step = 8
    /\ _step' = 0
    /\ UNCHANGED <<_skip_packet, _class, _msg_id, _payload_length,
                   _payload_counter, _ck_a, _ck_b, _buffer>>
    /\ IF _ck_b # data
       THEN /\ gpsStats' = [gpsStats EXCEPT !.errors = @ + 1]
            /\ UNCHANGED hist
            /\ NoParse
       ELSE /\ gpsStats' = [gpsStats EXCEPT !.packetCount = @ + 1]
            /\ IF _skip_packet
               THEN UNCHANGED hist /\ NoParse
               ELSE gpsParceFrameUBLOX

gpsNewFrameUBLOX(data) ==
    \/ Step0(data)
    \/ Step1(data)
    \/ Step2(data)
    \/ Step3(data)
    \/ Step4(data)
    \/ Step5(data)
    \/ Step6(data)
    \/ Step7(data)
    \/ Step8(data)

(***************************************************************************)
(* The receiver module's side of the wire: UBX frames as section 6 of the  *)
(* protocol lays them out, built from the payload structs of lines 168-293 *)
(***************************************************************************)
\* The 8-bit Fletcher sum of bytes[lo..hi] from a zero pair, by halves: the
\* left half's first sum is carried once through every byte of the right half
RECURSIVE Fletcher8(_, _, _)
Fletcher8(bytes, lo, hi) ==
    IF lo > hi THEN <<0, 0>>
    ELSE IF lo = hi THEN <<bytes[lo], bytes[lo]>>
    ELSE LET mid == (lo + hi) \div 2
             l == Fletcher8(bytes, lo, mid)
             r == Fletcher8(bytes, mid + 1, hi)
         IN  <<(l[1] + r[1]) % 256, (l[2] + (hi - mid) * l[1] + r[2]) % 256>>

LE16(v) == <<v % 256, (v \div 256) % 256>>
\* two's complement: a negative v has the low bytes of v + 2^31 and the top bit set
LE32(v) ==
    LET w == IF v < 0 THEN (v + 2147483647) + 1 ELSE v
        top == IF v < 0 THEN 128 ELSE 0
    IN  <<w % 256, (w \div 256) % 256, (w \div 65536) % 256, (w \div 16777216) + top>>
Fill(n, b) == [i \in 1..n |-> b]
Pad(str, n) == str \o Fill(n - Len(str), 0)

UbxBody(class, id, payload) == <<class, id>> \o LE16(Len(payload)) \o payload

UbxFrame(class, id, payload) ==
    LET body == UbxBody(class, id, payload)
        ck == Fletcher8(body, 1, Len(body))
    IN  <<PREAMBLE1, PREAMBLE2>> \o body \o <<ck[1], ck[2]>>

\* a frame with payload byte i (from 1) replaced by b, checksum bytes kept
CorruptFrame(frame, i, b) == [frame EXCEPT ![6 + i] = b]

\* sync, class, id and a declared length, nothing after
UbxHeader(class, id, len) == <<PREAMBLE1, PREAMBLE2, class, id>> \o LE16(len)

PosllhPayload(a) ==
    LE32(a.tow) \o LE32(a.lon) \o LE32(a.lat) \o LE32(a.altEll) \o LE32(a.altMsl)
    \o LE32(a.hAcc) \o LE32(a.vAcc)

StatusPayload(a) ==
    LE32(a.tow) \o <<a.fixType, a.fixStatus, 0, 0>> \o LE32(0) \o LE32(0)

SolPayload(a) ==
    LE32(a.tow) \o LE32(0) \o LE16(0) \o <<a.fixType, a.fixStatus>>
    \o Fill(32, 0) \o LE16(a.pDOP) \o <<0, a.numSat>> \o LE32(0)

VelnedPayload(a) ==
    LE32(a.tow) \o LE32(a.velN) \o LE32(a.velE) \o LE32(a.velD) \o LE32(0)
    \o LE32(a.speed2d) \o LE32(a.heading) \o LE32(0) \o LE32(0)

TimeutcPayload(a) ==
    LE32(a.tow) \o LE32(0) \o LE32(a.nano) \o LE16(a.year)
    \o <<a.month, a.day, a.hour, a.min, a.sec, a.valid>>

PvtPayload(a) ==
    LE32(a.tow) \o LE16(a.year) \o <<a.month, a.day, a.hour, a.min, a.sec, a.valid>>
    \o LE32(0) \o LE32(a.nano) \o <<a.fixType, a.fixStatus, 0, a.numSat>>
    \o LE32(a.lon) \o LE32(a.lat) \o LE32(a.altEll) \o LE32(a.altMsl)
    \o LE32(a.hAcc) \o LE32(a.vAcc) \o LE32(a.velN) \o LE32(a.velE) \o LE32(a.velD)
    \o LE32(a.speed2d) \o LE32(a.heading) \o LE32(0) \o LE32(0) \o LE16(a.pDOP)
    \o Fill(14, 0)

VerPayload(sw, hw, ext) == Pad(sw, 30) \o Pad(hw, 10) \o ext

AckPayload(class, msg) == <<class, msg>>

\* what the module (or the line) may put on the wire in one piece
Unit(kind, bytes, args) == [kind |-> kind, bytes |-> bytes, args |-> args]
NoArgs == [none |-> 0]

(***************************************************************************)
(* Initial state: the zero-initialised statics of the file, and the        *)
(* driver state of io/gps.c as gpsInit leaves it                           *)
(***************************************************************************)
GpsSolInit ==
    [llh |-> [lon |-> 0, lat |-> 0, alt |-> 0], eph |-> 0, epv |-> 0, hdop |-> 0,
     fixType |-> GPS_NO_FIX, numSat |-> 0, groundSpeed |-> 0, groundCourse |-> 0,
     velNED |-> <<0, 0, 0>>,
     flags |-> [validVelNE |-> 0, validVelD |-> 0, validEPE |-> 0, validTime |-> 0],
     time |-> [year |-> 0, month |-> 0, day |-> 0, hours |-> 0, minutes |-> 0,
               seconds |-> 0, millis |-> 0]]

HistInit ==
    [parseCalls |-> 0, stores |-> 0, storeIdx |-> -1, lastClass |-> -1,
     lastId |-> -1, posTow |-> -1, velTow |-> -1, posSeen |-> FALSE,
     velSeen |-> FALSE, doneWith |-> [pos |-> FALSE, vel |-> FALSE],
     solBefore |-> GpsSolInit, ackBefore |-> UBX_ACK_WAITING,
     hwBefore |-> UBX_HW_VERSION_UNKNOWN, galBefore |-> FALSE,
     ackSince |-> FALSE, nakSince |-> FALSE, doneAt |-> "none"]

Base == [packetCount |-> gpsStats.packetCount, errors |-> gpsStats.errors,
         parseCalls |-> hist.parseCalls, stores |-> hist.stores]

InflightInit ==
    [kind |-> "none", args |-> NoArgs, sync |-> TRUE, prevKind |-> "none",
     prevSync |-> TRUE,
     base |-> [packetCount |-> 0, errors |-> 0, parseCalls |-> 0, stores |-> 0]]

\* both protothreads at their ptBegin; gpsConfigure not spawned
ThrInit(run) == [run |-> run, state |-> "begin", cfg |-> 0]
PortInit == [baud |-> -1, txEmpty |-> TRUE]
DrvInit == [log |-> <<>>, nmea |-> <<>>, processed |-> 0, ended |-> "no",
            ackedAtEnd |-> FALSE, nakedAtEnd |-> FALSE, restarts |-> 0]

InitWith(configs, run, hws) ==
    /\ _step = 0 /\ _skip_packet = FALSE /\ _class = 0 /\ _msg_id = 0
    /\ _payload_length = 0 /\ _payload_counter = 0 /\ _ck_a = 0 /\ _ck_b = 0
    /\ _buffer = [i \in 0..(UBLOX_BUFFER_SIZE - 1) |-> 0]
    /\ gpsStats = [errors |-> 0, packetCount |-> 0]
    /\ gpsSol = GpsSolInit
    /\ next_fix_type = 0 /\ _new_position = FALSE /\ _new_speed = FALSE
    /\ _ack_state = 0 /\ _ack_waiting_msg = 0 /\ capGalileo = FALSE
    /\ \E c \in configs :
          gpsState = [hwVersion |-> UBX_HW_VERSION_UNKNOWN, autoConfigStep |-> 0,
                      autoBaudrateIndex |-> 0, baudrateIndex |-> 0, gpsConfig |-> c]
    /\ semNewDataReady = FALSE
    /\ thr = ThrInit(run)
    /\ port = PortInit
    /\ send_buffer = [i \in 0..(SEND_BUFFER_SIZE - 1) |-> 0]
    /\ tx = <<>>
    /\ \E hw \in hws : module = [hw |-> hw, strays |-> 0, epochs |-> 0]
    /\ rx = <<>>
    /\ parsed = FALSE /\ hist = HistInit /\ inflight = InflightInit /\ nSent = 0
    /\ drv = DrvInit

DefaultConfig ==
    [autoBaud |-> FALSE, autoConfig |-> TRUE, dynModel |-> "AIR_1G",
     provider |-> "UBLOX", sbasMode |-> "AUTO", ubloxUseGalileo |-> FALSE]

(***************************************************************************)
(* gpsProtocolReceiverThread, lines 976-995: one pass of the inner loop    *)
(* reads one waiting byte and hands it to the decoder; a completed epoch   *)
(* signals the semaphore                                                   *)
(***************************************************************************)
gpsProtocolReceiverThread ==
    /\ thr.run = "recv"
    /\ rx # <<>>
    /\ rx' = Tail(rx)
    /\ gpsNewFrameUBLOX(Head(rx))
    /\ semNewDataReady' = IF parsed' THEN TRUE ELSE semNewDataReady
    /\ UNCHANGED <<thr, port, cmdVars, inflight, nSent, drv>>

\* one unit goes onto the idle wire
Put(u) ==
    /\ rx = <<>>
    /\ rx' = u.bytes
    /\ inflight' = [kind |-> u.kind, args |-> u.args, sync |-> (_step = 0),
                    prevKind |-> inflight.kind, prevSync |-> inflight.sync,
                    base |-> Base]
    /\ nSent' = nSent + 1

\* the module (or the line) puts one unit of a menu on the idle wire
Emit(menu, max) ==
    /\ nSent < max
    /\ \E u \in menu : Put(u)
    /\ UNCHANGED <<decVars, mapVars, thrVars, cmdVars, parsed, hist, drv>>

(***************************************************************************)
(* Decoder specification: well-formed frames of every length class,        *)
(* corrupted frames, oversized headers and loose bytes                     *)
(***************************************************************************)
MaxUnitsDecoder == 3

PatternPayload(n) == [i \in 1..n |-> (i * 7) % 256]

\* a frame whose second checksum byte equals PREAMBLE1
FrameCkB5 == UbxFrame(CLASS_MON, 9, <<92>>)

GoodUnits ==
    { Unit("good", UbxFrame(CLASS_MON, 9, <<>>), [len |-> 0]),
      Unit("good", FrameCkB5, [len |-> 1]),
      Unit("good", UbxFrame(CLASS_NAV, MSG_SVINFO, <<PREAMBLE1, PREAMBLE2>>), [len |-> 2]),
      Unit("good", UbxFrame(CLASS_MON, 9, PatternPayload(MAX_UBLOX_PAYLOAD_SIZE)),
           [len |-> MAX_UBLOX_PAYLOAD_SIZE]) }

CorruptUnits ==
    { Unit("corrupt", CorruptFrame(FrameCkB5, 1, 93), [len |-> 1]),
      Unit("corrupt",
           CorruptFrame(UbxFrame(CLASS_NAV, MSG_SVINFO, <<PREAMBLE1, PREAMBLE2>>), 2, 99),
           [len |-> 2]),
      Unit("corrupt",
           CorruptFrame(UbxFrame(CLASS_NAV, MSG_SVINFO, <<PREAMBLE1, PREAMBLE2>>), 1, 0),
           [len |-> 2]) }

OversizeUnits ==
    { Unit("oversize", UbxHeader(CLASS_MON, 9, len), [len |-> len]) :
        len \in {MAX_UBLOX_PAYLOAD_SIZE + 1, 512, 65535} }

LooseUnits ==
    { Unit("loose", <<PREAMBLE1>>, [len |-> 0]),
      Unit("loose", <<PREAMBLE2>>, [len |-> 0]),
      Unit("loose", <<0>>, [len |-> 0]),
      Unit("loose", UbxHeader(CLASS_MON, 9, MAX_UBLOX_PAYLOAD_SIZE), [len |-> 0]) }

LineSendsDecoder ==
    Emit(GoodUnits \cup CorruptUnits \cup OversizeUnits \cup LooseUnits, MaxUnitsDecoder)

InitDecoder == InitWith({DefaultConfig}, "recv", {<<>>})
NextDecoder == gpsProtocolReceiverThread \/ LineSendsDecoder
SpecDecoder == InitDecoder /\ [][NextDecoder]_vars

\* C1: from the sync-search state, the bytes of a well-formed frame (payload
\* length 0..256, correct checksums) are accepted: nothing is counted or
\* dispatched before the last byte, and after it the packet counter is one
\* higher, gpsParceFrameUBLOX was called exactly once, for this frame, no error
\* was counted and the decoder is back in sync search.
C1_GoodFrameAccepted ==
    (inflight.kind = "good" /\ inflight.sync) =>
        IF rx = <<>>
        THEN /\ gpsStats.packetCount = inflight.base.packetCount + 1
             /\ hist.parseCalls = inflight.base.parseCalls + 1
             /\ gpsStats.errors = inflight.base.errors
             /\ _payload_length = inflight.args.len
             /\ _step = 0
        ELSE /\ gpsStats.packetCount = inflight.base.packetCount
             /\ hist.parseCalls = inflight.base.parseCalls

\* C25: a byte other than the second sync byte, received while the decoder
\* expects the second sync byte, puts the decoder back into sync search and
\* is dropped, also when it is the first sync byte; every byte read makes one
\* transition of _step (to the next step, to sync search, or none while in
\* sync search or inside the payload) and is removed from the input.
C25_NoResync ==
    [][ (rx # <<>> /\ rx' # rx) =>
          /\ rx' = Tail(rx)
          /\ (_step = 1 /\ Head(rx) # PREAMBLE2) =>
                /\ _step' = 0
                /\ UNCHANGED <<_skip_packet, _class, _msg_id, _payload_length,
                               _payload_counter, _ck_a, _ck_b, _buffer, gpsStats>>
          /\ (_step = 1 /\ Head(rx) = PREAMBLE2) => _step' = 2
          /\ _step' \in {0, _step + 1} \cup (IF _step = 6 THEN {6} ELSE {})
                                       \cup (IF _step = 5 THEN {7} ELSE {})
      ]_vars

\* a lone first sync byte was followed by a well-formed empty frame: the
\* frame's own first sync byte was dropped and the frame was not counted
C25_Witness ==
    /\ nSent = 2
    /\ inflight.kind = "good" /\ inflight.args.len = 0
    /\ inflight.prevKind = "loose" /\ ~inflight.sync
    /\ rx = <<>>
    /\ _step = 0
    /\ gpsStats.packetCount = 0 /\ gpsStats.errors = 0

\* C26: _skip_packet is false whenever the decoder is inside a frame, so
\* also when it compares the second checksum byte; that comparison is reached
\* only from a matching first checksum byte; and every frame whose second
\* checksum byte matches is counted and dispatched.
C26_SkipNeverSuppresses ==
    /\ [](_step \in 1..8 => ~_skip_packet)
    /\ [][ /\ (_step' = 8 /\ _step # 8) =>
                 _step = 7 /\ rx # <<>> /\ Head(rx) = _ck_a
           /\ (_step = 8 /\ rx # <<>> /\ rx' # rx /\ Head(rx) = _ck_b) =>
                 /\ gpsStats'.packetCount = gpsStats.packetCount + 1
                 /\ hist'.parseCalls = hist.parseCalls + 1
           /\ gpsStats'.packetCount # gpsStats.packetCount =>
                 hist'.parseCalls = hist.parseCalls + 1
         ]_vars

\* a frame failed the first checksum comparison, which sets the flag, and the
\* frame after it was dispatched
C26_Witness ==
    /\ inflight.kind = "good" /\ inflight.prevKind = "corrupt" /\ rx = <<>>
    /\ gpsStats.errors = 1
    /\ gpsStats.packetCount = inflight.base.packetCount + 1
    /\ hist.parseCalls = inflight.base.parseCalls + 1
    /\ ~_skip_packet

C1_Witness ==
    /\ inflight.kind = "good" /\ inflight.sync /\ rx = <<>>
    /\ inflight.args.len = MAX_UBLOX_PAYLOAD_SIZE
    /\ hist.parseCalls = inflight.base.parseCalls + 1
    /\ hist.storeIdx = MAX_UBLOX_PAYLOAD_SIZE - 1

\* C2: a well-formed frame with one payload byte changed and its checksum
\* bytes kept is not dispatched and counts one checksum error, and a
\* well-formed frame that follows its last byte immediately is accepted and
\* dispatched exactly once.
C2_ResumeAfterCorrupt ==
    /\ (inflight.kind = "corrupt" /\ inflight.sync /\ rx = <<>>) =>
          /\ hist.parseCalls = inflight.base.parseCalls
          /\ gpsStats.errors = inflight.base.errors + 1
    /\ (inflight.kind = "good" /\ inflight.prevKind = "corrupt"
        /\ inflight.prevSync /\ rx = <<>>) =>
          /\ gpsStats.packetCount = inflight.base.packetCount + 1
          /\ hist.parseCalls = inflight.base.parseCalls + 1

\* C3: a header declaring a length above 256 is abandoned on the length-high
\* byte (one error counted, nothing stored, nothing accepted, decoder in sync
\* search so that the next byte is tried as sync byte 1), and whatever bytes
\* arrive a payload byte is only stored at a buffer index below 256.
C3_OversizeAbandoned ==
    /\ hist.storeIdx < MAX_UBLOX_PAYLOAD_SIZE
    /\ (inflight.kind = "oversize" /\ inflight.sync /\ rx = <<>>) =>
          /\ _step = 0
          /\ _payload_length = inflight.args.len
          /\ gpsStats.errors = inflight.base.errors + 1
          /\ gpsStats.packetCount = inflight.base.packetCount
          /\ hist.stores = inflight.base.stores
    /\ (inflight.kind = "good" /\ inflight.prevKind = "oversize"
        /\ inflight.prevSync /\ rx = <<>>) =>
          /\ gpsStats.packetCount = inflight.base.packetCount + 1
          /\ hist.parseCalls = inflight.base.parseCalls + 1

C3_Witness ==
    /\ inflight.kind = "good" /\ inflight.prevKind = "oversize"
    /\ inflight.prevSync /\ rx = <<>>
    /\ inflight.args.len = MAX_UBLOX_PAYLOAD_SIZE
    /\ gpsStats.errors > 0
    /\ hist.storeIdx = MAX_UBLOX_PAYLOAD_SIZE - 1

(***************************************************************************)
(* Mapper specification: navigation frames of two epochs (time-of-week     *)
(* 1000 and 1200), any of which the line may have dropped, and frames of   *)
(* another class that carry a navigation message id                        *)
(***************************************************************************)
MaxUnitsMapper == 2

Posllh(tow, lon, lat, altMsl, expAlt) ==
    [tow |-> tow, lon |-> lon, lat |-> lat, altEll |-> altMsl + 4000,
     altMsl |-> altMsl, hAcc |-> 200, vAcc |-> 300, expAlt |-> expAlt]

Velned(tow, n, e, d, speed) ==
    [tow |-> tow, velN |-> n, velE |-> e, velD |-> d, speed2d |-> speed,
     heading |-> 9000000]

\* the combined frame of the end-to-end case
PvtCase ==
    [tow |-> 1000, year |-> 2021, month |-> 3, day |-> 14, hour |-> 15, min |-> 9,
     sec |-> 26, valid |-> 3, nano |-> 123456789, fixType |-> 3, fixStatus |-> 1,
     numSat |-> 9, lon |-> 1000000000, lat |-> 500000000, altEll |-> 104000,
     altMsl |-> 100000, hAcc |-> 200, vAcc |-> 300, velN |-> 1230, velE |-> 450,
     velD |-> 60, speed2d |-> 1310, heading |-> 9000000, pDOP |-> 150,
     expFix |-> GPS_FIX_3D, expAlt |-> 10000, expVel |-> <<123, 45, 6>>,
     expSpeed |-> 131, expValidTime |-> 1, expMillis |-> 123]

\* southern and western hemisphere, below sea level, negative velocities
PvtNegative ==
    [PvtCase EXCEPT !.tow = 1200, !.lon = -1222222222, !.lat = -377777777,
        !.altMsl = -15, !.altEll = -4015, !.velN = -1234, !.velE = -5,
        !.velD = -19, !.speed2d = 1239, !.fixType = 2, !.valid = 1, !.numSat = 4,
        !.nano = -1500000,
        !.expFix = GPS_FIX_2D, !.expAlt = -1, !.expVel = <<-123, 0, -1>>,
        !.expSpeed = 123, !.expValidTime = 0, !.expMillis = -1]

\* raw fix 3 without the fix-valid bit, and a raw fix type other than 2 or 3
PvtNoValidBit == [PvtCase EXCEPT !.fixStatus = 0, !.expFix = GPS_NO_FIX]
PvtDeadReckoning == [PvtNegative EXCEPT !.fixType = 4, !.fixStatus = 3,
                                         !.expFix = GPS_NO_FIX]

MapperUnits ==
    { Unit("posllh", UbxFrame(CLASS_NAV, MSG_POSLLH, PosllhPayload(a)), a) :
        a \in { Posllh(1000, 1000000000, 500000000, 100000, 10000),
                Posllh(1200, -1222222222, -377777777, -15, -1) } }
    \cup
    { Unit("velned", UbxFrame(CLASS_NAV, MSG_VELNED, VelnedPayload(a)), a) :
        a \in { Velned(1000, 123, 45, 6, 131), Velned(1200, -123, 0, -1, 123) } }
    \cup
    { Unit("status", UbxFrame(CLASS_NAV, MSG_STATUS, StatusPayload(a)), a) :
        a \in { [tow |-> 1000, fixType |-> 3, fixStatus |-> 1, expFix |-> GPS_FIX_3D],
                [tow |-> 1200, fixType |-> 3, fixStatus |-> 0, expFix |-> GPS_NO_FIX] } }
    \cup
    { Unit("sol", UbxFrame(CLASS_NAV, MSG_SOL, SolPayload(a)), a) :
        a \in { [tow |-> 1200, fixType |-> 2, fixStatus |-> 1, pDOP |-> 150,
                 numSat |-> 7, expFix |-> GPS_FIX_2D] } }
    \cup
    { Unit("pvt", UbxFrame(CLASS_NAV, MSG_PVT, PvtPayload(a)), a) :
        a \in {PvtCase, PvtNegative, PvtNoValidBit, PvtDeadReckoning} }
    \cup
    { Unit("foreign", UbxFrame(CLASS_MON, MSG_POSLLH, Fill(28, 17)), [class |-> CLASS_MON]),
      Unit("foreign", UbxFrame(CLASS_MON, 9, Fill(28, 34)), [class |-> CLASS_MON]) }

ModuleSendsNav == Emit(MapperUnits, MaxUnitsMapper)

InitMapper == InitWith({DefaultConfig}, "recv", {<<>>})
NextMapper == gpsProtocolReceiverThread \/ ModuleSendsNav
SpecMapper == InitMapper /\ [][NextMapper]_vars

\* the last unit was fed from sync search and its last byte has been decoded
Fed(kind) == inflight.kind = kind /\ inflight.sync /\ rx = <<>>

\* C19: an accepted frame whose class and id are not a recognised pair, a
\* recognised id under another class included (here the monitor class with
\* the id of the position message, and with an id no case names), changes
\* nothing of gpsSol, neither latch, not next_fix_type, not the ack state,
\* not the hardware version or capGalileo, and reports no complete epoch.
C19_ForeignIgnored ==
    Fed("foreign") =>
        /\ hist.parseCalls = inflight.base.parseCalls + 1
        /\ hist.lastClass = inflight.args.class
        /\ gpsSol = hist.solBefore
        /\ _ack_state = hist.ackBefore
        /\ gpsState.hwVersion = hist.hwBefore
        /\ capGalileo = hist.galBefore
        /\ ~parsed
        /\ nSent = 1 => ~_new_position /\ ~_new_speed /\ next_fix_type = GPS_NO_FIX

\* C24: a status or solution frame whose derived fix type is none sets
\* gpsSol.fixType to none at once; one whose derived fix type is 2D or 3D
\* leaves gpsSol.fixType as it is and only sets the pending fix type; a
\* position frame publishes a pending fix type that is not none and leaves
\* gpsSol.fixType unchanged when the pending fix type is none.
C24_FixTypeDeferred ==
    [][ (hist'.parseCalls > hist.parseCalls /\ inflight.sync) =>
          LET k == inflight.kind
              exp == inflight.args.expFix
          IN  /\ (k \in {"status", "sol"} /\ exp = GPS_NO_FIX) =>
                    /\ gpsSol'.fixType = GPS_NO_FIX
                    /\ next_fix_type' = GPS_NO_FIX
              /\ (k \in {"status", "sol"} /\ exp # GPS_NO_FIX) =>
                    /\ gpsSol'.fixType = gpsSol.fixType
                    /\ next_fix_type' = exp
              /\ k = "posllh" =>
                    /\ next_fix_type' = next_fix_type
                    /\ next_fix_type # GPS_NO_FIX => gpsSol'.fixType = next_fix_type
                    /\ next_fix_type = GPS_NO_FIX => gpsSol'.fixType = gpsSol.fixType
      ]_vars

\* a status frame with a valid 3D fix left the published fix type at none,
\* and the position frame after it published 3D
C24_Witness ==
    /\ Fed("posllh") /\ inflight.prevKind = "status"
    /\ hist.solBefore.fixType = GPS_NO_FIX
    /\ gpsSol.fixType = GPS_FIX_3D
    /\ next_fix_type = GPS_FIX_3D

C5_SameEpoch == parsed => (hist.posTow = hist.velTow)

\* C8: the bytes of a well-formed PVT frame publish in one step a solution
\* with the fix type mapped from the fix-valid bit and the raw fix type (2 ->
\* 2D, 3 -> 3D, else none), longitude and latitude as sent, altitude =
\* altitude-MSL / 10, the three velocities and the ground speed = field / 10
\* (C division), the satellite count as sent, the accuracy and both velocity
\* flags set, and the epoch reported complete; lon 1000000000, alt-MSL 100000,
\* fix bit set, raw fix 3, 9 satellites, date and time valid gives 3D,
\* lon 1000000000, alt 10000, numSat 9, validTime 1.
C8_PvtPublished ==
    Fed("pvt") =>
        LET a == inflight.args IN
        /\ parsed /\ semNewDataReady
        /\ gpsSol.fixType = a.expFix
        /\ gpsSol.llh.lon = a.lon /\ gpsSol.llh.lat = a.lat
        /\ gpsSol.llh.alt = a.expAlt
        /\ gpsSol.velNED = a.expVel
        /\ gpsSol.groundSpeed = a.expSpeed
        /\ gpsSol.numSat = a.numSat
        /\ gpsSol.flags.validEPE = 1
        /\ gpsSol.flags.validVelNE = 1 /\ gpsSol.flags.validVelD = 1
        /\ gpsSol.flags.validTime = a.expValidTime
        /\ (a = PvtCase =>
               /\ gpsSol.fixType = GPS_FIX_3D /\ gpsSol.llh.lon = 1000000000
               /\ gpsSol.llh.alt = 10000 /\ gpsSol.numSat = 9
               /\ gpsSol.flags.validTime = 1)

C8_Witness ==
    /\ Fed("pvt") /\ inflight.args = PvtCase
    /\ parsed /\ gpsSol.llh.alt = 10000 /\ gpsSol.fixType = GPS_FIX_3D
    /\ hist.solBefore.llh.lon = -1222222222

(***************************************************************************)
(* Time specification: UTC-time and PVT frames over the validity bytes     *)
(***************************************************************************)
MaxUnitsTime == 2

\* every combination of bit 0 and bit 1, with the other six bits clear or set
ValidBytes == {0, 1, 2, 3, 252, 253, 254, 255}

Timeutc(valid) ==
    [tow |-> 1000, nano |-> 123456789, year |-> 2021, month |-> 3, day |-> 14,
     hour |-> 15, min |-> 9, sec |-> 26, valid |-> valid, expMillis |-> 123]

TimeutcLater ==
    [tow |-> 1200, nano |-> -1500000, year |-> 2022, month |-> 12, day |-> 31,
     hour |-> 23, min |-> 59, sec |-> 59, valid |-> 7, expMillis |-> -1]

TimeUnits ==
    { Unit("timeutc", UbxFrame(CLASS_NAV, MSG_TIMEUTC, TimeutcPayload(a)), a) :
        a \in {Timeutc(v) : v \in ValidBytes} \cup {TimeutcLater} }
    \cup
    { Unit("pvt", UbxFrame(CLASS_NAV, MSG_PVT, PvtPayload(a)), a) :
        a \in {[PvtCase EXCEPT !.valid = v, !.year = 2023] : v \in ValidBytes} }

ModuleSendsTime == Emit(TimeUnits, MaxUnitsTime)

InitTime == InitWith({DefaultConfig}, "recv", {<<>>})
NextTime == gpsProtocolReceiverThread \/ ModuleSendsTime
SpecTime == InitTime /\ [][NextTime]_vars

\* C6: for every validity byte of a UTC-time frame and of a PVT frame, the
\* timestamp is copied into the solution and validTime set to 1 if and only if
\* bit 0 (date valid) and bit 1 (time valid) are both set; otherwise validTime
\* is 0 and the solution's timestamp is left as it was.
C6_TimeValidity ==
    (Fed("timeutc") \/ Fed("pvt")) =>
        LET a == inflight.args
            both == (a.valid % 2 = 1) /\ ((a.valid \div 2) % 2 = 1)
        IN  IF both
            THEN /\ gpsSol.flags.validTime = 1
                 /\ gpsSol.time = [year |-> a.year, month |-> a.month, day |-> a.day,
                                   hours |-> a.hour, minutes |-> a.min,
                                   seconds |-> a.sec, millis |-> a.expMillis]
            ELSE /\ gpsSol.flags.validTime = 0
                 /\ gpsSol.time = hist.solBefore.time

C6_Witness ==
    /\ Fed("timeutc") /\ inflight.args.valid = 253
    /\ gpsSol.flags.validTime = 0
    /\ hist.solBefore.flags.validTime = 1
    /\ gpsSol.time.year = 2022 /\ gpsSol.time.millis = -1

(***************************************************************************)
(* Version specification: MON-VER replies over hardware-version strings:   *)
(* the table's entries, proper prefixes of entries, entries followed by    *)
(* further characters, near misses and FFFFFFFF                            *)
(***************************************************************************)
MaxUnitsVer == 2

\* "ROM CORE 3.01 (107888)": character 9 is '3'
SwVersionText == <<82, 79, 77, 32, 67, 79, 82, 69, 32, 51, 46, 48, 49, 32, 40, 49, 48, 55, 56, 56, 56, 41>>

HwTexts ==
    {
      <<48, 48, 48, 52, 48, 48, 48, 53>>,                   \* "00040005"
      <<48, 48, 48, 52, 48, 48, 48, 55>>,                   \* "00040007"
      <<48, 48, 48, 55, 48, 48, 48, 48>>,                   \* "00070000"
      <<48, 48, 48, 56, 48, 48, 48, 48>>,                   \* "00080000"
      <<48, 48, 49, 57, 48, 48, 48, 48>>,                   \* "00190000"
      <<48, 48, 48, 65, 48, 48, 48, 48>>,                   \* "000A0000"
      <<>>,                                                 \* ""
      <<48, 48, 48, 56>>,                                   \* "0008"
      <<48, 48, 48, 56, 48, 48, 48>>,                       \* "0008000"
      <<48, 48, 48, 56, 48, 48, 48, 48, 48>>,               \* "000800000"
      <<48, 48, 48, 56, 48, 48, 48, 48, 48, 48>>,           \* "0008000000"
      <<48, 48, 48, 56, 48, 48, 48, 49>>,                   \* "00080001"
      <<49, 48, 48, 56, 48, 48, 48, 48>>,                   \* "10080000"
      <<70, 70, 70, 70, 70, 70, 70, 70>>,                   \* "FFFFFFFF"
      <<48, 48, 49, 57, 48, 48, 48>>,                       \* "0019000"
      <<48, 48, 48, 65, 48, 48, 48, 48, 65>>                \* "000A0000A"
    }

VerUnits ==
    { Unit("ver", UbxFrame(CLASS_MON, MSG_VER, VerPayload(SwVersionText, hw, <<>>)),
           [hw |-> hw]) : hw \in HwTexts }
    \cup
    { Unit("foreign", UbxFrame(CLASS_NAV, MSG_VER, VerPayload(SwVersionText, <<48, 48, 48, 55, 48, 48, 48, 48>>, <<>>)),
           [class |-> CLASS_NAV]) }

\* version frames with extension bytes: "xGAL" from an older module, one
\* extension byte "x" from a newer one, a whole block "GAL", and a payload of
\* 256 bytes "x"
VerExtUnits ==
    LET ver(hw, ext) == UbxFrame(CLASS_MON, MSG_VER, VerPayload(SwVersionText, hw, ext))
        hw6 == <<48, 48, 48, 52, 48, 48, 48, 55>>
        hw8 == <<48, 48, 48, 56, 48, 48, 48, 48>>
    IN  { Unit("verext", ver(hw6, Pad(<<120>> \o GAL, 30)), [gal |-> FALSE, len |-> 70]),
          Unit("verext", ver(hw8, <<120>>), [gal |-> FALSE, len |-> 41]),
          Unit("verext", ver(hw8, Pad(GAL, 30)), [gal |-> TRUE, len |-> 70]),
          Unit("verext", ver(hw8, Fill(216, 120)), [gal |-> FALSE, len |-> 256]) }

ModuleSendsVer == Emit(VerUnits \cup VerExtUnits, MaxUnitsVer)

InitVer == InitWith({DefaultConfig}, "recv", {<<>>})
NextVer == gpsProtocolReceiverThread \/ ModuleSendsVer
SpecVer == InitVer /\ [][NextVer]_vars

\* C9: the hardware version decoded from a version reply is a generation only
\* when the version string equals a table entry as a whole ("00080000" gives
\* the 8th generation); every other string, a proper prefix of an entry, an
\* entry followed by further characters and "FFFFFFFF" among them, gives
\* unknown.
C9_ExactMatch ==
    Fed("ver") =>
        LET hw == inflight.args.hw IN
        /\ gpsState.hwVersion =
              (CASE hw = <<48, 48, 48, 52, 48, 48, 48, 53>> -> 500
                 [] hw = <<48, 48, 48, 52, 48, 48, 48, 55>> -> 600
                 [] hw = <<48, 48, 48, 55, 48, 48, 48, 48>> -> 700
                 [] hw = <<48, 48, 48, 56, 48, 48, 48, 48>> -> 800
                 [] hw = <<48, 48, 49, 57, 48, 48, 48, 48>> -> 900
                 [] hw = <<48, 48, 48, 65, 48, 48, 48, 48>> -> 1000
                 [] OTHER -> 0)
        /\ (hw = <<48, 48, 48, 56, 48, 48, 48, 48>> => gpsState.hwVersion = UBX_HW_VERSION_UBLOX8)
        /\ (hw = <<70, 70, 70, 70, 70, 70, 70, 70>> => gpsState.hwVersion = UBX_HW_VERSION_UNKNOWN)

C9_Witness ==
    /\ Fed("ver") /\ inflight.args.hw = <<48, 48, 48, 56, 48, 48, 48, 48, 48>>
    /\ gpsState.hwVersion = UBX_HW_VERSION_UNKNOWN
    /\ hist.hwBefore = UBX_HW_VERSION_UBLOX8

\* C27: when a version frame is processed capGalileo becomes true only if
\* the text "GAL" occurs in an extension block of that frame: the scan reads
\* no byte beyond the frame's payload length or beyond the 256 bytes of
\* _buffer, and no byte that an earlier frame left in _buffer.
C27_ScanInsideFrame ==
    Fed("verext") =>
        /\ hist.parseCalls = inflight.base.parseCalls + 1
        /\ _payload_length = inflight.args.len
        /\ (capGalileo /\ ~hist.galBefore) => inflight.args.gal

\* C21: within one link session a known hardware version is never changed
\* to unknown or to an older generation by a later frame, and capGalileo,
\* once true, is not made false.
C21_CapabilityMonotone ==
    [][ /\ gpsState.hwVersion # UBX_HW_VERSION_UNKNOWN =>
              gpsState'.hwVersion >= gpsState.hwVersion
        /\ capGalileo => capGalileo'
      ]_vars

(***************************************************************************)
(* Command encoder, lines 425-566.  Every configure* function fills the    *)
(* header and payload fields of send_buffer and calls                      *)
(* sendConfigMessageUBLOX; bytes it does not write keep what an earlier    *)
(* command left there                                                      *)
(***************************************************************************)
\* default_payload, lines 448-453
default_payload ==
    <<255, 255, 3, 3, 0,
      0, 0, 0, 16, 39, 0, 0, 5, 0, 250, 0,
      250, 0, 100, 0, 44, 1, 0, 60, 0, 0, 0,
      0, 200, 0, 0, 0, 0, 0, 0, 0>>

\* ubloxScanMode1, lines 83-90, indexed by the configured SBAS mode
ubloxScanMode1(sbasMode) ==
    CASE sbasMode = "AUTO"  -> 0
      [] sbasMode = "EGNOS" -> 2 ^ 3 + 2 ^ 6 + 2 ^ 16
      [] sbasMode = "WAAS"  -> 2 ^ 11 + 2 ^ 13 + 2 ^ 18
      [] sbasMode = "MSAS"  -> 2 ^ 9 + 2 ^ 17
      [] sbasMode = "GAGAN" -> 2 ^ 7 + 2 ^ 8
      [] sbasMode = "NONE"  -> 0

UBX_DYNMODEL(dynModel) ==
    CASE dynModel = "PEDESTRIAN" -> 3
      [] dynModel = "AIR_4G" -> 8
      [] OTHER -> 6

UBX_FIXMODE_AUTO == 3
GNSSID_SBAS == 1
GNSSID_GALILEO == 2

\* bytes written into a buffer from offset off
WriteAt(buf, off, bytes) ==
    [i \in DOMAIN buf |->
        IF i >= off /\ i < off + Len(bytes) THEN bytes[i - off + 1] ELSE buf[i]]

\* header.msg_class, header.msg_id, header.length (ubx_header, lines 154-160)
SetHeader(buf, class, id, length) == WriteAt(buf, 2, <<class, id>> \o LE16(length))

\* lines 440-446, up to the call of sendConfigMessageUBLOX
pollVersion(buf) == SetHeader(buf, CLASS_MON, MSG_VER, 0)

\* lines 515-524
configureNAV5(buf, dynModel, fixMode) ==
    WriteAt(WriteAt(SetHeader(buf, CLASS_CFG, MSG_CFG_NAV_SETTINGS, 36),
                    6, default_payload),
            8, <<dynModel, fixMode>>)

\* lines 526-535
configureMSG(buf, class, id, rate) ==
    WriteAt(SetHeader(buf, CLASS_CFG, MSG_CFG_SET_RATE, 3), 6, <<class, id, rate>>)

\* lines 542-551
configureRATE(buf, measRate) ==
    WriteAt(SetHeader(buf, CLASS_CFG, MSG_CFG_RATE, 6), 6,
            LE16(measRate) \o LE16(1) \o LE16(1))

\* lines 555-566
configureSBAS(buf, config) ==
    WriteAt(SetHeader(buf, CLASS_CFG, MSG_CFG_SBAS, 8), 6,
            <<(IF config.sbasMode = "NONE" THEN 2 ELSE 3), 3, 3, 0>>
            \o LE32(ubloxScanMode1(config.sbasMode)))

\* configureGNSS_SBAS, lines 458-472: the block at byte offset off; the
\* fields reserved1, undefined0 and undefined1 are not written
configureGNSS_SBAS(buf, off, config) ==
    LET on == IF config.sbasMode = "NONE" THEN 0 ELSE 1
    IN  [buf EXCEPT ![off] = GNSSID_SBAS, ![off + 2] = 3, ![off + 6] = 1,
                    ![off + 4] = on, ![off + 1] = on]

\* configureGNSS_GALILEO, lines 474-492, when capGalileo holds
configureGNSS_GALILEO(buf, off, config) ==
    [buf EXCEPT ![off] = GNSSID_GALILEO, ![off + 2] = 8, ![off + 6] = 1,
                ![off + 4] = IF config.ubloxUseGalileo THEN 1 ELSE 0,
                ![off + 1] = IF config.ubloxUseGalileo THEN 4 ELSE 0]

\* lines 494-513
configureGNSS(buf, config, gal) ==
    LET b0 == [buf EXCEPT ![2] = CLASS_CFG, ![3] = MSG_CFG_GNSS,
                          ![6] = 0, ![7] = 0, ![8] = 32]
        b1 == configureGNSS_SBAS(b0, 10, config)
        b2 == IF gal THEN configureGNSS_GALILEO(b1, 18, config) ELSE b1
        blocksUsed == IF gal THEN 2 ELSE 1
    IN  WriteAt([b2 EXCEPT ![9] = blocksUsed], 4, LE16(4 + 8 * blocksUsed))

\* the frame sendConfigMessageUBLOX writes to the port, lines 427-433: the
\* checksum runs over header.length + 4 bytes from byte 2, the count passed as
\* a uint8_t
SentFrame(buf) ==
    LET b1 == [buf EXCEPT ![0] = PREAMBLE1, ![1] = PREAMBLE2]
        length == b1[4] + 256 * b1[5]
        n == ToU8(length + 4)
        ck == _update_checksum([i \in 1..n |-> b1[i + 1]], n, <<0, 0>>)
    IN  [b1 EXCEPT ![length + 6] = ck[1], ![length + 7] = ck[2]]

WireBytes(buf) == [i \in 1..(buf[4] + 256 * buf[5] + 8) |-> buf[i - 1]]

\* observation of one sent command: the source line of the call, the wire
\* bytes, how the wait before it ended, and whether an acknowledge (negative
\* acknowledge) naming the previous command was processed after that was sent
LogEntry(line, frame, how) ==
    [line |-> line, class |-> frame[3], id |-> frame[4],
     payload |-> SubSeq(frame, 7, Len(frame) - 2), how |-> how,
     acked |-> hist.ackSince, naked |-> hist.nakSince]

\* sendConfigMessageUBLOX, lines 425-438, on a filled buffer; p, gs, d and t are
\* the port, gpsState, observation and thread records as the caller's earlier
\* statements leave them
sendConfigMessageUBLOX(buf, line, how, p, gs, d, t) ==
    LET b == SentFrame(buf)
    IN  /\ send_buffer' = b
        /\ tx' = Append(tx, WireBytes(b))
        /\ port' = [p EXCEPT !.txEmpty = FALSE]
        /\ _ack_waiting_msg' = b[3]
        /\ _ack_state' = UBX_ACK_WAITING
        /\ gpsState' = gs
        /\ thr' = t
        /\ drv' = [d EXCEPT !.log = Append(@, LogEntry(line, WireBytes(b), how))]
        /\ hist' = [hist EXCEPT !.ackSince = FALSE, !.nakSince = FALSE]
        /\ UNCHANGED semNewDataReady

(***************************************************************************)
(* Protothreads (scheduler/protothreads.h): a thread function runs from    *)
(* its saved position to the next wait whose condition is false, and       *)
(* returns there.  gpsHandleUBLOX, lines 1068-1078, calls the receiver     *)
(* thread and then the state thread; thr.run tells which one has control.  *)
(***************************************************************************)
\* what the state thread never writes
stFrame == <<decVars, gpsSol, next_fix_type, _new_position, _new_speed,
             capGalileo, module, rx, parsed, inflight, nSent>>

At(label, cfg) == [run |-> "idle", state |-> label, cfg |-> cfg]

\* the thread returns where it is
ptYield ==
    /\ thr' = [thr EXCEPT !.run = "idle"]
    /\ UNCHANGED <<port, gpsState, semNewDataReady, send_buffer, tx,
                   _ack_state, _ack_waiting_msg, drv, hist>>

\* a faulty variant of the next action: the signal is left in place
ptSemaphoreWaitMut(p, gs, d) ==
    /\ thr' = At("1054", 0)
    /\ port' = p
    /\ gpsState' = gs
    /\ semNewDataReady' = semNewDataReady
    /\ drv' = [d EXCEPT !.processed = IF semNewDataReady THEN @ + 1 ELSE @]
    /\ UNCHANGED <<send_buffer, tx, _ack_state, _ack_waiting_msg, hist>>
\* lines 1049-1056: ptSemaphoreWait takes the signal if it is there, and
\* gpsProcessNewSolutionData is called once
ptSemaphoreWait(p, gs, d) ==
    /\ thr' = At("1054", 0)
    /\ port' = p
    /\ gpsState' = gs
    /\ semNewDataReady' = FALSE
    /\ drv' = [d EXCEPT !.processed = IF semNewDataReady THEN @ + 1 ELSE @]
    /\ UNCHANGED <<send_buffer, tx, _ack_state, _ack_waiting_msg, hist>>

\* lines 1030-1047 up to the first wait: with autoConfig the version poll
\* goes out, without it the thread is ready
AfterBaud(p, gs, d) ==
    IF gs.gpsConfig.autoConfig
    THEN sendConfigMessageUBLOX(pollVersion(send_buffer), 1040, "first", p,
             [gs EXCEPT !.hwVersion = UBX_HW_VERSION_UNKNOWN, !.autoConfigStep = 1],
             d, At("1042", 0))
    ELSE ptSemaphoreWait(p, gs, d)

\* the serial driver's answer to isSerialTransmitBufferEmpty: port.txEmpty is
\* false from a write until the buffer has been seen empty, and what was
\* written may or may not have been shifted out when the thread asks
isSerialTransmitBufferEmpty == IF port.txEmpty THEN {TRUE} ELSE BOOLEAN

\* a faulty variant of the next action: each candidate rate gets the
\* rate-change command of that candidate
BaudAttemptMut(index) ==
    /\ port' = [baud |-> index, txEmpty |-> FALSE]
    /\ gpsState' = [gpsState EXCEPT !.autoBaudrateIndex = index]
    /\ drv' = [drv EXCEPT !.nmea = Append(@, [at |-> index, cmd |-> index])]
    /\ thr' = At("1014", 0)
    /\ UNCHANGED <<semNewDataReady, send_buffer, tx, _ack_state, _ack_waiting_msg,
                   hist>>
\* serialSetBaudRate and serialPrint of lines 1010-1011 at candidate index
BaudAttempt(index) ==
    /\ port' = [baud |-> index, txEmpty |-> FALSE]
    /\ gpsState' = [gpsState EXCEPT !.autoBaudrateIndex = index]
    /\ drv' = [drv EXCEPT !.nmea = Append(@, [at |-> index,
                                               cmd |-> gpsState.baudrateIndex])]
    /\ thr' = At("1014", 0)
    /\ UNCHANGED <<semNewDataReady, send_buffer, tx, _ack_state, _ack_waiting_msg,
                   hist>>

\* lines 999-1028: the wait for an empty transmit buffer (line 1004 or 1024),
\* then the first baud attempt or the configured rate
ptBegin_gpsProtocolStateThread ==
    /\ thr.state = "begin"
    /\ \E empty \in isSerialTransmitBufferEmpty :
          IF ~empty THEN ptYield
          ELSE IF gpsState.gpsConfig.autoBaud THEN BaudAttempt(0)
          ELSE AfterBaud([baud |-> gpsState.baudrateIndex, txEmpty |-> TRUE],
                         gpsState, drv)

\* line 1014
ptWait_1014 ==
    /\ thr.state = "1014"
    /\ \E empty \in isSerialTransmitBufferEmpty :
          IF ~empty THEN ptYield
          ELSE /\ thr' = At("1017", 0)
               /\ port' = [port EXCEPT !.txEmpty = TRUE]
               /\ UNCHANGED <<gpsState, semNewDataReady, send_buffer, tx,
                              _ack_state, _ack_waiting_msg, drv, hist>>

\* line 1017, then the loop's increment and test, and line 1019 after it
ptDelayMs_1017 ==
    /\ thr.state = "1017"
    /\ \E elapsed \in BOOLEAN :
          IF ~elapsed THEN ptYield
          ELSE IF gpsState.autoBaudrateIndex + 1 < GPS_BAUDRATE_COUNT
          THEN BaudAttempt(gpsState.autoBaudrateIndex + 1)
          ELSE AfterBaud([port EXCEPT !.baud = gpsState.baudrateIndex],
                         [gpsState EXCEPT !.autoBaudrateIndex = @ + 1], drv)

(***************************************************************************)
(* gpsConfigure, lines 819-972: the statement that follows each wait, and  *)
(* the condition of each wait.  A position is the source line of its wait. *)
(***************************************************************************)
Stmt(line, cmd, wait) == [end |-> FALSE, line |-> line, cmd |-> cmd, wait |-> wait]
StmtEnd == [end |-> TRUE, line |-> 971, cmd |-> <<>>, wait |-> 0]
MSG(class, id, rate) == [fn |-> "MSG", class |-> class, id |-> id, rate |-> rate]
\* a faulty variant of the next statement: every branch sets 200 ms
RATEMut(meas) == [fn |-> "RATE", meas |-> 200]
RATE(meas) == [fn |-> "RATE", meas |-> meas]

gpsConfigureNext(p, gs) ==
    LET hw == gs.hwVersion
        dyn == gs.gpsConfig.dynModel
    IN  CASE p = 0   -> Stmt((IF dyn = "PEDESTRIAN" THEN 829
                              ELSE IF dyn = "AIR_4G" THEN 836 ELSE 833),
                             [fn |-> "NAV5", dynModel |-> UBX_DYNMODEL(dyn)], 839)
          [] p = 839 -> Stmt(844, MSG(MSG_CLASS_NMEA, MSG_NMEA_GGA, 0), 845)
          [] p = 845 -> Stmt(847, MSG(MSG_CLASS_NMEA, MSG_NMEA_GLL, 0), 848)
          [] p = 848 -> Stmt(850, MSG(MSG_CLASS_NMEA, MSG_NMEA_GSA, 0), 851)
          [] p = 851 -> Stmt(853, MSG(MSG_CLASS_NMEA, MSG_NMEA_GSV, 0), 854)
          [] p = 854 -> Stmt(856, MSG(MSG_CLASS_NMEA, MSG_NMEA_RMC, 0), 857)
          [] p = 857 -> Stmt(859, MSG(MSG_CLASS_NMEA, MSG_NMEA_VGS, 0), 860)
          [] p = 860 -> IF hw >= UBX_HW_VERSION_UBLOX9
                        THEN Stmt(867, MSG(MSG_CLASS_UBX, MSG_POSLLH, 0), 868)
                        ELSE IF hw >= UBX_HW_VERSION_UBLOX7
                        THEN Stmt(897, MSG(MSG_CLASS_UBX, MSG_POSLLH, 0), 898)
                        ELSE Stmt(929, MSG(MSG_CLASS_UBX, MSG_POSLLH, 1), 930)
          \* hardware version 9 and newer
          [] p = 868 -> Stmt(870, MSG(MSG_CLASS_UBX, MSG_STATUS, 0), 871)
          [] p = 871 -> Stmt(873, MSG(MSG_CLASS_UBX, MSG_VELNED, 0), 874)
          [] p = 874 -> Stmt(876, MSG(MSG_CLASS_UBX, MSG_TIMEUTC, 0), 877)
          [] p = 877 -> Stmt(879, MSG(MSG_CLASS_UBX, MSG_PVT, 1), 880)
          [] p = 880 -> Stmt(882, MSG(MSG_CLASS_UBX, MSG_NAV_SAT, 0), 883)
          [] p = 883 -> Stmt(885, MSG(MSG_CLASS_UBX, MSG_NAV_SIG, 0), 886)
          [] p = 886 -> Stmt(890, RATE(200), 891)
          [] p = 891 -> Stmt(961, [fn |-> "SBAS"], 962)
          \* hardware version 7 and 8
          [] p = 898 -> Stmt(900, MSG(MSG_CLASS_UBX, MSG_STATUS, 0), 901)
          [] p = 901 -> Stmt(903, MSG(MSG_CLASS_UBX, MSG_SOL, 1), 904)
          [] p = 904 -> Stmt(906, MSG(MSG_CLASS_UBX, MSG_VELNED, 0), 907)
          [] p = 907 -> Stmt(909, MSG(MSG_CLASS_UBX, MSG_TIMEUTC, 0), 910)
          [] p = 910 -> Stmt(912, MSG(MSG_CLASS_UBX, MSG_PVT, 1), 913)
          [] p = 913 -> Stmt(915, MSG(MSG_CLASS_UBX, MSG_SVINFO, 0), 916)
          [] p = 916 -> IF gs.gpsConfig.provider = "UBLOX7PLUS"
                           /\ hw >= UBX_HW_VERSION_UBLOX7
                        THEN Stmt(919, RATE(100), 924)
                        ELSE Stmt(922, RATE(200), 924)
          [] p = 924 -> Stmt(961, [fn |-> "SBAS"], 962)
          \* hardware version 5, 6 and unknown
          [] p = 930 -> Stmt(932, MSG(MSG_CLASS_UBX, MSG_STATUS, 1), 933)
          [] p = 933 -> Stmt(935, MSG(MSG_CLASS_UBX, MSG_SOL, 1), 936)
          [] p = 936 -> Stmt(938, MSG(MSG_CLASS_UBX, MSG_VELNED, 1), 939)
          [] p = 939 -> Stmt(941, MSG(MSG_CLASS_UBX, MSG_TIMEUTC, 10), 942)
          [] p = 942 -> Stmt(945, MSG(MSG_CLASS_UBX, MSG_PVT, 0), 946)
          [] p = 946 -> Stmt(948, MSG(MSG_CLASS_UBX, MSG_SVINFO, 0), 949)
          [] p = 949 -> Stmt(952, RATE(200), 953)
          [] p = 953 -> Stmt(961, [fn |-> "SBAS"], 962)
          \* line 965
          [] p = 962 -> IF hw >= 80000 THEN Stmt(967, [fn |-> "GNSS"], 968)
                        ELSE StmtEnd
          [] p = 968 -> StmtEnd

\* the buffer as the configure* call of a statement fills it
Filled(buf, cmd, gs, gal) ==
    CASE cmd.fn = "NAV5" -> configureNAV5(buf, cmd.dynModel, UBX_FIXMODE_AUTO)
      [] cmd.fn = "MSG"  -> configureMSG(buf, cmd.class, cmd.id, cmd.rate)
      [] cmd.fn = "RATE" -> configureRATE(buf, cmd.meas)
      [] cmd.fn = "SBAS" -> configureSBAS(buf, gs.gpsConfig)
      [] cmd.fn = "GNSS" -> configureGNSS(buf, gs.gpsConfig, gal)

\* the conditions of the waits: line 946, lines 962 and 968, every other line
AckOrNak(ack) == ack = UBX_ACK_GOT_ACK \/ ack = UBX_ACK_GOT_NAK
\* a faulty variant of the next condition: the wait does not wait
AckOnlyMut(ack) == TRUE
\* a second faulty variant: the wait ends on the negative acknowledge
AckOnlyNakMut(ack) == ack = UBX_ACK_GOT_NAK
AckOnly(ack) == ack = UBX_ACK_GOT_ACK
\* a faulty variant of the next table: every wait also ends on a negative
\* acknowledge
WaitConditionMut(p, ack) == AckOrNak(ack)
WaitCondition(p, ack) ==
    IF p \in {946, 962, 968} THEN AckOrNak(ack) ELSE AckOnly(ack)
\* a faulty variant of the next set: the SBAS wait written as a plain ptWait
HasTimeoutMut(p) == p \in {968}
\* the waits written with ptWaitTimeout
HasTimeout(p) == p \in {962, 968}

\* a ptWaitTimeout whose condition is false ends when its time has elapsed
Elapsed(cond, timed) == IF ~cond /\ timed THEN BOOLEAN ELSE {FALSE}

\* the statement after a wait, run up to the next wait; ptEnd returns to the
\* state thread, which goes on at line 1050
gpsConfigureStep(p, how, gs) ==
    LET n == gpsConfigureNext(p, gs)
    IN  IF n.end
        THEN ptSemaphoreWait(port, gs,
                 [drv EXCEPT !.ended = how, !.ackedAtEnd = hist.ackSince,
                             !.nakedAtEnd = hist.nakSince])
        ELSE sendConfigMessageUBLOX(Filled(send_buffer, n.cmd, gs, capGalileo),
                                    n.line, how, port, gs, drv, At("1046", n.wait))

\* a faulty variant of the next test: one poll more
RetryAgainMut(step, known) == step <= GPS_VERSION_RETRY_TIMES /\ ~known
\* the loop test of line 1043
RetryAgain(step, known) == step < GPS_VERSION_RETRY_TIMES /\ ~known

\* lines 1039-1046: the wait on the version, the loop test, and either the
\* next poll or the spawn of gpsConfigure with its first statement
ptWaitTimeout_1042 ==
    /\ thr.state = "1042"
    /\ LET known == gpsState.hwVersion # UBX_HW_VERSION_UNKNOWN
       IN  \E elapsed \in Elapsed(known, TRUE) :
              IF ~(known \/ elapsed) THEN ptYield
              ELSE LET how == IF known THEN "cond" ELSE "timeout"
                   IN  IF RetryAgain(gpsState.autoConfigStep, known)
                       THEN sendConfigMessageUBLOX(pollVersion(send_buffer), 1040, how,
                                port, [gpsState EXCEPT !.autoConfigStep = @ + 1],
                                drv, At("1042", 0))
                       ELSE gpsConfigureStep(0, how, gpsState)

\* the state thread inside the spawned gpsConfigure, at the wait of line thr.cfg
gpsConfigure ==
    /\ thr.state = "1046"
    /\ LET cond == WaitCondition(thr.cfg, _ack_state)
       IN  \E elapsed \in Elapsed(cond, HasTimeout(thr.cfg)) :
              IF ~(cond \/ elapsed) THEN ptYield
              ELSE gpsConfigureStep(thr.cfg, IF cond THEN "cond" ELSE "timeout",
                                    gpsState)

\* lines 1053-1056
ptSemaphoreWait_1054 ==
    /\ thr.state = "1054"
    /\ IF semNewDataReady THEN ptSemaphoreWait(port, gpsState, drv) ELSE ptYield

\* line 1072
gpsProtocolStateThread ==
    /\ thr.run = "state"
    /\ \/ ptBegin_gpsProtocolStateThread
       \/ ptWait_1014
       \/ ptDelayMs_1017
       \/ ptWaitTimeout_1042
       \/ gpsConfigure
       \/ ptSemaphoreWait_1054
    /\ UNCHANGED stFrame

\* line 1071: gpsHandleUBLOX enters the receiver thread
gpsHandleUBLOX ==
    /\ thr.run = "idle"
    /\ thr' = [thr EXCEPT !.run = "recv"]
    /\ UNCHANGED <<decVars, mapVars, semNewDataReady, port, cmdVars, rx, obsVars>>

\* a faulty variant of the next condition: the break of line 989 leaves the
\* thread
ReceiverReturnsMut(waiting, epoch) == ~waiting \/ epoch
\* the receiver thread returns only at the ptWait of line 982, when its
\* condition is false; the break of line 989 leads back to that wait, which
\* lets the thread go on when bytes are waiting
ReceiverReturns(waiting, epoch) == ~waiting

\* line 982: no byte is waiting, the receiver thread returns and the state
\* thread is called
ptWait_982 ==
    /\ thr.run = "recv"
    /\ ReceiverReturns(rx # <<>>, parsed)
    /\ thr' = [thr EXCEPT !.run = "state"]
    /\ UNCHANGED <<decVars, mapVars, semNewDataReady, port, cmdVars, rx, obsVars>>

(***************************************************************************)
(* The module: it answers the commands it received in their order and in   *)
(* its own time, a version poll with its version or not at all, a          *)
(* configuration command with an acknowledge or a negative acknowledge     *)
(* naming the command; on the link that the driver does not configure *)
(* it sends navigation epochs                                              *)
(***************************************************************************)
MaxEpochs == 1

Replies(cmd) ==
    LET class == cmd[3]
        id == cmd[4]
    IN  IF class = CLASS_MON /\ id = MSG_VER
        THEN { Unit("ver", UbxFrame(CLASS_MON, MSG_VER,
                                    VerPayload(SwVersionText, module.hw, <<>>)),
                    [hw |-> module.hw]),
               Unit("drop", <<>>, NoArgs) }
        ELSE { Unit("ack", UbxFrame(CLASS_ACK, MSG_ACK_ACK, AckPayload(class, id)),
                    [msg |-> id]),
               Unit("nak", UbxFrame(CLASS_ACK, MSG_ACK_NACK, AckPayload(class, id)),
                    [msg |-> id]) }

\* one epoch, or two that arrive back to back
EpochUnits ==
    LET pvt == UbxFrame(CLASS_NAV, MSG_PVT, PvtPayload(PvtCase))
    IN  { Unit("pvt", pvt, PvtCase), Unit("pvt2", pvt \o pvt, PvtCase) }

ModuleAnswers ==
    /\ tx # <<>>
    /\ thr.run # "state"
    /\ \E u \in Replies(Head(tx)) : Put(u)
    /\ tx' = Tail(tx)
    /\ UNCHANGED <<decVars, mapVars, thrVars, send_buffer, module, parsed, hist, drv>>

ModuleSendsEpoch ==
    /\ ~gpsState.gpsConfig.autoConfig
    /\ thr.state = "1054"
    /\ thr.run # "state"
    /\ module.epochs < MaxEpochs
    /\ \E u \in EpochUnits : Put(u)
    /\ module' = [module EXCEPT !.epochs = @ + 1]
    /\ UNCHANGED <<decVars, mapVars, thrVars, send_buffer, tx, parsed, hist, drv>>

(***************************************************************************)
(* The driver: both protothreads under gpsHandleUBLOX, the serial port and *)
(* the module                                                              *)
(***************************************************************************)
AutoConfigured ==
    [autoBaud |-> FALSE, autoConfig |-> TRUE, dynModel |-> "PEDESTRIAN",
     provider |-> "UBLOX7PLUS", sbasMode |-> "EGNOS", ubloxUseGalileo |-> FALSE]
AutoBauded ==
    [autoBaud |-> TRUE, autoConfig |-> FALSE, dynModel |-> "AIR_1G",
     provider |-> "UBLOX", sbasMode |-> "NONE", ubloxUseGalileo |-> TRUE]
AutoBaudConfigured ==
    [autoBaud |-> TRUE, autoConfig |-> TRUE, dynModel |-> "AIR_4G",
     provider |-> "UBLOX", sbasMode |-> "AUTO", ubloxUseGalileo |-> TRUE]

\* the version strings of the modules on the line: "00040007", "00080000",
\* "000A0000"
ModuleHw == { HW_00040007, HW_00080000, HW_000A0000 }

Init == InitWith({AutoConfigured, AutoBauded, AutoBaudConfigured}, "idle", ModuleHw)

Next ==
    \/ gpsHandleUBLOX
    \/ gpsProtocolReceiverThread
    \/ ptWait_982
    \/ gpsProtocolStateThread
    \/ ModuleAnswers
    \/ ModuleSendsEpoch

Spec == Init /\ [][Next]_vars

\* the commands of gpsConfigure in the order they were written to the port
IsConfigCommand(e) == e.class = CLASS_CFG
CfgLog == SelectSeq(drv.log, IsConfigCommand)

\* the steps whose wait also ends on a negative acknowledge (the combined
\* message at rate 0 of the oldest branch, SBAS, GNSS) or on the step timeout
\* (SBAS, GNSS)
NakEndsStep(e) ==
    \/ e.id \in {MSG_CFG_SBAS, MSG_CFG_GNSS}
    \/ e.id = MSG_CFG_SET_RATE /\ e.payload = <<MSG_CLASS_UBX, MSG_PVT, 0>>
TimeoutEndsStep(e) == e.id \in {MSG_CFG_SBAS, MSG_CFG_GNSS}

\* C10: in every run of gpsConfigure the commands go out in the fixed order:
\* the navigation-engine settings, the six NMEA disables GGA, GLL, GSA, GSV,
\* RMC, VTG, seven message rates of the UBX class and the update rate, SBAS
\* (and nothing but GNSS after it); a command is sent only after an acknowledge
\* frame naming the previous command was processed since that command was
\* sent, or, where the previous step allows it, a negative acknowledge or the
\* step timeout; and no step is sent a second time.
C10_SequencerOrder ==
    /\ Len(CfgLog) <= 17
    /\ \A k \in DOMAIN CfgLog :
          LET e == CfgLog[k]
          IN  /\ k = 1 => e.id = MSG_CFG_NAV_SETTINGS
              /\ k \in 2..7 => /\ e.id = MSG_CFG_SET_RATE
                                /\ e.payload = <<MSG_CLASS_NMEA, k - 2, 0>>
              /\ k \in 8..14 => /\ e.id = MSG_CFG_SET_RATE
                                 /\ e.payload[1] = MSG_CLASS_UBX
              /\ k = 15 => e.id = MSG_CFG_RATE
              /\ k = 16 => e.id = MSG_CFG_SBAS
              /\ k = 17 => e.id = MSG_CFG_GNSS
              /\ k > 1 =>
                    LET prev == CfgLog[k - 1]
                    IN  /\ \/ e.acked
                           \/ NakEndsStep(prev) /\ e.naked
                           \/ TimeoutEndsStep(prev) /\ e.how = "timeout"
                        /\ prev.line < e.line
    /\ drv.ended # "no" =>
          /\ Len(CfgLog) \in {16, 17}
          /\ drv.ackedAtEnd \/ drv.nakedAtEnd \/ drv.ended = "timeout"

\* a run on the oldest branch is over: the combined-message step ended on a
\* negative acknowledge and the SBAS step on its timeout
C10_Witness ==
    /\ drv.ended = "timeout"
    /\ Len(CfgLog) = 16
    /\ CfgLog[13].payload = <<MSG_CLASS_UBX, MSG_PVT, 0>>
    /\ CfgLog[14].naked /\ ~CfgLog[14].acked
    /\ thr.state = "1054"

\* the waits of gpsConfigure that a negative acknowledge ends: the combined
\* message of the oldest branch (line 946), SBAS (line 962), GNSS (line 968)
NakTolerantWaits == {946, 962, 968}

\* the state thread is inside gpsConfigure and the command it waits on has
\* been answered by a negative acknowledge
NakedAt(waits) ==
    /\ thr.state = "1046" /\ thr.cfg \in waits
    /\ _ack_state = UBX_ACK_GOT_NAK

\* C11: a negative acknowledge stops gpsConfigure at the step it answers (the
\* thread stays at that wait, the ack state stays negative-acknowledged and no
\* further command is written), except at the combined-message step of the
\* oldest branch, the SBAS step and the GNSS step, whose waits a negative
\* acknowledge ends as an acknowledge does: the next time the thread runs it
\* executes the statement that follows the wait.  The combined-message waits
\* of the two newer branches (lines 880 and 913) are among those that stop.
\* (The GNSS wait is stated on its condition.)
C11_NakStopsOrAdvances ==
    [][ /\ NakedAt(0..1000 \ NakTolerantWaits) =>
              /\ thr'.state = "1046" /\ thr'.cfg = thr.cfg
              /\ _ack_state' = UBX_ACK_GOT_NAK
              /\ drv'.log = drv.log
        /\ (NakedAt(NakTolerantWaits) /\ thr.run = "state") =>
              LET n == gpsConfigureNext(thr.cfg, gpsState)
              IN  IF n.end THEN thr'.state = "1054" /\ drv'.ended = "cond"
                  ELSE /\ thr'.state = "1046" /\ thr'.cfg = n.wait
                       /\ Len(drv'.log) = Len(drv.log) + 1
                       /\ drv'.log[Len(drv'.log)].line = n.line
        /\ \A p \in NakTolerantWaits : WaitCondition(p, UBX_ACK_GOT_NAK)
      ]_vars

\* the combined-message enable of the 7/8 branch was answered by a negative
\* acknowledge, the state thread has run since and is still at that wait
C11_Witness ==
    /\ NakedAt({913})
    /\ thr.run = "idle" /\ rx = <<>> /\ tx = <<>>
    /\ drv.log[Len(drv.log)].payload = <<MSG_CLASS_UBX, MSG_PVT, 1>>

\* the version polls written so far
Polls == {k \in DOMAIN drv.log : drv.log[k].line = 1040}

\* C14: with autoConfig the version poll is sent at least once before the
\* first configuration command and at most GPS_VERSION_RETRY_TIMES times; each
\* poll is followed by the wait of line 1042, which the thread leaves only
\* with a known hardware version or on its timeout; a poll is repeated only
\* after a timeout with the version still unknown, and with a known version
\* the thread goes straight on to gpsConfigure; the version stays unknown
\* unless a version frame is decoded, and with the version unknown at the
\* branch the oldest message-enable branch (line 929) is taken.
C14_VersionPoll ==
    [][ LET sent == Len(drv'.log) > Len(drv.log)
            e == drv'.log[Len(drv'.log)]
            known == gpsState.hwVersion # UBX_HW_VERSION_UNKNOWN
        IN  /\ (sent /\ e.line = 1040) =>
                  /\ gpsState.gpsConfig.autoConfig
                  /\ Cardinality(Polls) < GPS_VERSION_RETRY_TIMES
                  /\ Polls # {} => (e.how = "timeout" /\ ~known)
                  /\ thr'.state = "1042"
            /\ (sent /\ e.class = CLASS_CFG) => Polls # {}
            /\ (thr.state = "1042" /\ thr'.state # "1042") =>
                  /\ sent /\ e.line \in {829, 833, 836}
                  /\ known \/ e.how = "timeout"
            /\ (thr.state = "1042" /\ thr.run = "state" /\ known) =>
                  thr'.state = "1046"
            /\ (gpsState.hwVersion = UBX_HW_VERSION_UNKNOWN
                /\ gpsState'.hwVersion # UBX_HW_VERSION_UNKNOWN) =>
                  /\ hist'.parseCalls > hist.parseCalls
                  /\ _msg_id' = MSG_VER
            /\ (sent /\ e.line \in {867, 897, 929} /\ ~known) => e.line = 929
      ]_vars

\* both polls went unanswered and the oldest branch has begun with the
\* version unknown
C14_Witness ==
    /\ Cardinality(Polls) = GPS_VERSION_RETRY_TIMES
    /\ gpsState.hwVersion = UBX_HW_VERSION_UNKNOWN
    /\ drv.log[Len(drv.log)].line = 929
    /\ CfgLog[1].how = "timeout"

\* the CFG-GNSS frame configureGNSS builds in the send buffer: numConfigBlocks
\* (payload byte 3) and header.length count the blocks written, the first
\* block is the SBAS block and the second, if any, the Galileo block
GnssFrameFor(gal) ==
    LET b == configureGNSS(send_buffer, gpsState.gpsConfig, gal)
        blocks == IF gal THEN 2 ELSE 1
    IN  /\ b[2] = CLASS_CFG /\ b[3] = MSG_CFG_GNSS
        /\ b[9] = blocks
        /\ b[4] + 256 * b[5] = 4 + 8 * blocks
        /\ b[10] = GNSSID_SBAS
        /\ gal => b[18] = GNSSID_GALILEO

\* C13: when gpsConfigure has ended, a CFG-GNSS command was sent after the
\* SBAS command exactly if the detected hardware version is
\* UBX_HW_VERSION_UBLOX8 or newer; the command holds an SBAS block, and a
\* Galileo block exactly when capGalileo is set, with numConfigBlocks and the
\* payload length matching the blocks included.
C13_GnssOnNewHardware ==
    /\ \A gal \in BOOLEAN : GnssFrameFor(gal)
    /\ \A k \in DOMAIN CfgLog :
          CfgLog[k].id = MSG_CFG_GNSS =>
              /\ k > 1 /\ CfgLog[k - 1].id = MSG_CFG_SBAS
              /\ gpsState.hwVersion >= UBX_HW_VERSION_UBLOX8
              /\ CfgLog[k].payload[4] = (IF capGalileo THEN 2 ELSE 1)
              /\ Len(CfgLog[k].payload) = 4 + 8 * CfgLog[k].payload[4]
    /\ (drv.ended # "no" /\ gpsState.hwVersion >= UBX_HW_VERSION_UBLOX8) =>
          \E k \in DOMAIN CfgLog : CfgLog[k].id = MSG_CFG_GNSS

(***************************************************************************)
(* The driver under its scheduler: gpsHandleUBLOX is called again and      *)
(* again and each thread body runs when called; the clock advances, so a   *)
(* thread that keeps being resumed at a ptWaitTimeout finds, at some call, *)
(* its condition true or its time elapsed.  Nothing is assumed of the      *)
(* module.                                                                 *)
(***************************************************************************)
\* the waits of gpsConfigure, by source line, and the positions at which a
\* call of the state thread returns
ConfigureWaits ==
    {839, 845, 848, 851, 854, 857, 860, 868, 871, 874, 877, 880, 883, 886, 891,
     898, 901, 904, 907, 910, 913, 916, 924, 930, 933, 936, 939, 942, 946, 949,
     953, 962, 968}
Positions ==
    {At(l, 0) : l \in {"begin", "1014", "1017", "1042", "1054"}}
    \cup {At("1046", c) : c \in ConfigureWaits}

\* a call of the state thread returns: the step of gpsProtocolStateThread,
\* told by what it does to the thread record
StateThreadReturns ==
    /\ thr.run = "state"
    /\ thr' \in Positions

\* a call of the state thread leaves a wait of gpsConfigure that is written
\* ptWaitTimeout
ptWaitTimeoutEnds ==
    /\ thr.run = "state"
    /\ thr.state = "1046" /\ HasTimeout(thr.cfg)
    /\ thr' \in Positions \ {At("1046", thr.cfg)}

SpecLive ==
    /\ Init /\ [][Next]_vars
    /\ WF_vars(gpsHandleUBLOX)
    /\ WF_vars(gpsProtocolReceiverThread)
    /\ WF_vars(ptWait_982)
    /\ WF_thr(StateThreadReturns)
    /\ SF_thr(ptWaitTimeoutEnds)

\* the state thread is at the wait that follows configureSBAS (line 962)
AtSbasWait == thr.state = "1046" /\ thr.cfg = 962

\* C12: once configureSBAS has been sent the sequencer leaves the SBAS step:
\* the first time the thread runs with the ack state acknowledged or
\* negative-acknowledged it goes on, and if neither arrives it goes on when
\* the step timeout has elapsed; it never stays at this wait for ever,
\* whatever the module does.
C12_SbasStepEnds ==
    /\ [][ (AtSbasWait /\ thr.run = "state" /\ AckOrNak(_ack_state))
              => ~AtSbasWait' ]_vars
    /\ (AtSbasWait ~> ~AtSbasWait)

\* gpsConfigure has ended after the SBAS wait ran out: no acknowledge and no
\* negative acknowledge naming CFG-SBAS was processed
C12_Witness ==
    /\ drv.ended = "timeout"
    /\ ~drv.ackedAtEnd /\ ~drv.nakedAtEnd
    /\ drv.log[Len(drv.log)].id = MSG_CFG_SBAS
    /\ _ack_state = UBX_ACK_WAITING

\* the message rates and the update rate that the branch starting at a
\* source line is to send, as pairs of message id and rate
BranchPlan(line, provider) ==
    CASE line = 867 ->
           [last |-> 890, meas |-> 200,
            msgs |-> << <<MSG_POSLLH, 0>>, <<MSG_STATUS, 0>>, <<MSG_VELNED, 0>>,
                        <<MSG_TIMEUTC, 0>>, <<MSG_PVT, 1>>, <<MSG_NAV_SAT, 0>>,
                        <<MSG_NAV_SIG, 0>> >>]
      [] line = 897 ->
           [last |-> 922, meas |-> IF provider = "UBLOX7PLUS" THEN 100 ELSE 200,
            msgs |-> << <<MSG_POSLLH, 0>>, <<MSG_STATUS, 0>>, <<MSG_SOL, 1>>,
                        <<MSG_VELNED, 0>>, <<MSG_TIMEUTC, 0>>, <<MSG_PVT, 1>>,
                        <<MSG_SVINFO, 0>> >>]
      [] line = 929 ->
           [last |-> 952, meas |-> 200,
            msgs |-> << <<MSG_POSLLH, 1>>, <<MSG_STATUS, 1>>, <<MSG_SOL, 1>>,
                        <<MSG_VELNED, 1>>, <<MSG_TIMEUTC, 10>>, <<MSG_PVT, 0>>,
                        <<MSG_SVINFO, 0>> >>]

\* C20: one message-enable branch is executed in a run of gpsConfigure, chosen
\* by gpsState.hwVersion when the NMEA disables have finished.  UBLOX9 and
\* newer: POSLLH, STATUS, VELNED, TIMEUTC at rate 0, PVT at 1, NAV_SAT and
\* NAV_SIG, then update rate 200 ms.  UBLOX7 and UBLOX8: POSLLH, STATUS,
\* SOL(1), VELNED, TIMEUTC, PVT(1), SVINFO, then 100 ms if the provider is
\* UBLOX7PLUS and 200 ms if not.  UBLOX5, UBLOX6 and unknown: POSLLH(1),
\* STATUS(1), SOL(1), VELNED(1), TIMEUTC(10), PVT(0), SVINFO(0), then 200 ms.
C20_BranchByHardware ==
    /\ [](\A k \in DOMAIN CfgLog : k \in 8..15 =>
            LET first == CfgLog[8].line
                plan == BranchPlan(first, gpsState.gpsConfig.provider)
                e == CfgLog[k]
            IN  /\ first \in {867, 897, 929}
                /\ e.line \in first..plan.last
                /\ k <= 14 =>
                      /\ e.id = MSG_CFG_SET_RATE
                      /\ e.payload = <<MSG_CLASS_UBX, plan.msgs[k - 7][1],
                                       plan.msgs[k - 7][2]>>
                /\ k = 15 =>
                      /\ e.id = MSG_CFG_RATE
                      /\ SubSeq(e.payload, 1, 2) = LE16(plan.meas))
    /\ [][ (Len(CfgLog) = 7 /\ Len(CfgLog') = 8) =>
             CfgLog'[8].line =
                 (IF gpsState.hwVersion >= UBX_HW_VERSION_UBLOX9 THEN 867
                  ELSE IF gpsState.hwVersion >= UBX_HW_VERSION_UBLOX7 THEN 897
                  ELSE 929)
         ]_vars

\* a module of the 8th generation on a link whose provider is UBLOX7PLUS: the
\* 7/8 branch has run to its end with update rate 100 ms, and SBAS has
\* followed
C20_Witness ==
    /\ gpsState.hwVersion = UBX_HW_VERSION_UBLOX8
    /\ gpsState.gpsConfig.provider = "UBLOX7PLUS"
    /\ Len(CfgLog) = 16
    /\ CfgLog[8].line = 897
    /\ CfgLog[10].payload = <<MSG_CLASS_UBX, MSG_SOL, 1>>
    /\ CfgLog[15].payload[1] = 100
    /\ CfgLog[16].id = MSG_CFG_SBAS

\* the state thread is in the baud phase, lines 1001-1028
InBaudPhase == thr.state \in {"begin", "1014", "1017"}

\* C16: with autoBaud the state thread makes one attempt at each candidate
\* rate, in list order: it sets the port to the candidate, prints the
\* rate-change command of the configured rate (the same at every candidate),
\* waits for the transmit buffer to be empty and then for the settle delay,
\* and reads nothing; after the last candidate the port is set to the
\* configured rate.  Without autoBaud the port is set to the configured rate
\* once and nothing is printed.  The port is at the configured rate before
\* the first binary command.
C16_BaudNegotiation ==
    /\ [](/\ Len(drv.nmea) <= GPS_BAUDRATE_COUNT
          /\ \A k \in DOMAIN drv.nmea :
                /\ drv.nmea[k].at = k - 1
                /\ drv.nmea[k].cmd = gpsState.baudrateIndex
          /\ ~gpsState.gpsConfig.autoBaud => drv.nmea = <<>>
          /\ thr.state \in {"1014", "1017"} =>
                /\ gpsState.gpsConfig.autoBaud /\ drv.nmea # <<>>
                /\ port.baud = drv.nmea[Len(drv.nmea)].at
          /\ ~InBaudPhase =>
                /\ port.baud = gpsState.baudrateIndex
                /\ gpsState.gpsConfig.autoBaud => Len(drv.nmea) = GPS_BAUDRATE_COUNT
          /\ drv.log # <<>> => ~InBaudPhase)
    /\ [][ /\ Len(drv'.nmea) > Len(drv.nmea) =>
                 /\ thr.run = "state" /\ thr.state \in {"begin", "1017"}
                 /\ port.txEmpty
                 /\ Len(drv'.nmea) = Len(drv.nmea) + 1
                 /\ thr'.state = "1014" /\ ~port'.txEmpty
           /\ (thr.state = "1014" /\ thr'.state # "1014") =>
                 thr'.state = "1017" /\ port'.txEmpty /\ drv' = drv
           /\ (thr.state = "1017" /\ thr'.state \notin {"1017", "1014"}) =>
                 /\ Len(drv.nmea) = GPS_BAUDRATE_COUNT
                 /\ port.baud = GPS_BAUDRATE_COUNT - 1
           /\ (InBaudPhase /\ thr.run = "state") =>
                 UNCHANGED <<rx, decVars, _ack_state>>
           /\ port'.baud # port.baud =>
                 \/ Len(drv'.nmea) > Len(drv.nmea)
                 \/ InBaudPhase /\ ~InBaudPhase'
         ]_vars

\* all candidates were tried on a link that is also configured, and the
\* first binary command has gone out at the configured rate
C16_Witness ==
    /\ gpsState.gpsConfig.autoBaud /\ gpsState.gpsConfig.autoConfig
    /\ Len(drv.nmea) = GPS_BAUDRATE_COUNT
    /\ drv.nmea[GPS_BAUDRATE_COUNT].at = GPS_BAUDRATE_COUNT - 1
    /\ Len(drv.log) = 1
    /\ port.baud = gpsState.baudrateIndex

\* C17: in every call of gpsHandleUBLOX the receiver thread returns only when
\* no byte is waiting: every byte that was waiting, or arrived while it ran,
\* has been read and given to gpsNewFrameUBLOX, one at a time and in order,
\* also when epochs completed among those bytes.
C17_ReceiverDrains ==
    [][ /\ (thr.run = "recv" /\ thr'.run # "recv") =>
              /\ rx = <<>> /\ rx' = <<>>
              /\ thr'.run = "state"
              /\ UNCHANGED <<decVars, mapVars, semNewDataReady>>
        /\ (rx # <<>> /\ rx' # rx) =>
              /\ thr.run = "recv" /\ thr'.run = "recv"
              /\ rx' = Tail(rx)
              /\ parsed' => semNewDataReady'
      ]_vars

\* two epochs arrived back to back and the receiver thread read both frames
\* in one call before it returned
C17_Witness ==
    /\ Fed("pvt2")
    /\ hist.parseCalls = inflight.base.parseCalls + 2
    /\ thr.run = "state"
    /\ semNewDataReady

(***************************************************************************)
(* The encoder looped back into the decoder: every command the driver can  *)
(* build, as sendConfigMessageUBLOX writes it, is fed to gpsNewFrameUBLOX  *)
(***************************************************************************)
MaxUnitsLoop == 1

\* the statements of gpsConfigure for every hardware version and the
\* configurations of the driver runs
LoopStatements ==
    { gpsConfigureNext(p, [hwVersion |-> hw, gpsConfig |-> c]).cmd :
        p \in ({0} \cup ConfigureWaits) \ {962, 968},
        hw \in {UBX_HW_VERSION_UNKNOWN, UBX_HW_VERSION_UBLOX8, UBX_HW_VERSION_UBLOX10},
        c \in {AutoConfigured, AutoBaudConfigured, DefaultConfig} }
    \cup { [fn |-> "GNSS"] }

\* the send buffer as a command leaves it for the next one
LoopBuffers ==
    LET zero == [i \in 0..(SEND_BUFFER_SIZE - 1) |-> 0]
        gs(c) == [hwVersion |-> UBX_HW_VERSION_UBLOX8, gpsConfig |-> c]
        fresh == { SentFrame(Filled(zero, cmd, gs(c), gal)) :
                     cmd \in LoopStatements,
                     c \in {AutoConfigured, AutoBaudConfigured}, gal \in BOOLEAN }
        nav5 == SentFrame(configureNAV5(zero, 6, UBX_FIXMODE_AUTO))
    IN  fresh
        \cup { SentFrame(pollVersion(zero)), SentFrame(pollVersion(nav5)) }
        \cup { SentFrame(configureGNSS(nav5, AutoBaudConfigured, gal)) : gal \in BOOLEAN }

LoopUnits == { Unit("cmd", WireBytes(b), [frame |-> WireBytes(b)]) : b \in LoopBuffers }

LineLoopsBack == Emit(LoopUnits, MaxUnitsLoop)

InitLoop == InitWith({DefaultConfig}, "recv", {<<>>})
NextLoop == gpsProtocolReceiverThread \/ LineLoopsBack
SpecLoop == InitLoop /\ [][NextLoop]_vars

\* C23: the two trailing bytes of every command sendConfigMessageUBLOX builds
\* are the running sum (a += byte, b += a, modulo 256) over class, id, the
\* two length bytes and the payload; and the decoder, fed the command from
\* sync search, ends with the same pair in its accumulators, passes both
\* checksum comparisons, counts the packet and no error, and dispatches it.
C23_ChecksumsAgree ==
    Fed("cmd") =>
        LET w == inflight.args.frame
            n == Len(w)
            sum == Fletcher8(w, 3, n - 2)
        IN  /\ n = w[5] + 256 * w[6] + 8
            /\ w[1] = PREAMBLE1 /\ w[2] = PREAMBLE2
            /\ w[n - 1] = sum[1] /\ w[n] = sum[2]
            /\ _ck_a = sum[1] /\ _ck_b = sum[2]
            /\ _class = w[3] /\ _msg_id = w[4] /\ _payload_length = n - 8
            /\ gpsStats.packetCount = inflight.base.packetCount + 1
            /\ gpsStats.errors = inflight.base.errors
            /\ hist.parseCalls = inflight.base.parseCalls + 1
            /\ _step = 0 /\ ~_skip_packet

\* the navigation-engine command, the longest the encoder builds, has gone
\* through the decoder
C23_Witness ==
    /\ Fed("cmd")
    /\ inflight.args.frame[4] = MSG_CFG_NAV_SETTINGS
    /\ _payload_length = 36
    /\ gpsStats.packetCount = 1 /\ gpsStats.errors = 0

(***************************************************************************)
(* The driver with a module that sends navigation epochs from power-up,    *)
(* also while the driver negotiates the baud rate and configures           *)
(***************************************************************************)
ModuleSendsEarly ==
    /\ thr.run # "state"
    /\ module.epochs < MaxEpochs
    /\ \E u \in EpochUnits : Put(u)
    /\ module' = [module EXCEPT !.epochs = @ + 1]
    /\ UNCHANGED <<decVars, mapVars, thrVars, send_buffer, tx, parsed, hist, drv>>

InitSignal == InitWith({AutoBauded, AutoConfigured}, "idle", {HW_00080000})

NextSignal ==
    \/ gpsHandleUBLOX
    \/ gpsProtocolReceiverThread
    \/ ptWait_982
    \/ gpsProtocolStateThread
    \/ ModuleAnswers
    \/ ModuleSendsEarly

SpecSignal == InitSignal /\ [][NextSignal]_vars

\* C18: semNewDataReady is a single slot.  gpsProcessNewSolutionData is
\* called only when the receiver thread has signalled a complete epoch since
\* the previous call, and the call takes the signal; the signal is set only
\* by the receiver thread, at every complete epoch; epochs completed before
\* the state thread takes the signal, those during baud negotiation and
\* configuration included, lead to one call; and no call happens before baud
\* negotiation and configuration have ended.
C18_SingleSlot ==
    /\ [](/\ drv.processed <= module.epochs
          /\ drv.processed > 0 =>
                /\ thr.state = "1054"
                /\ gpsState.gpsConfig.autoBaud => Len(drv.nmea) = GPS_BAUDRATE_COUNT
                /\ gpsState.gpsConfig.autoConfig => drv.ended # "no"
          /\ thr.state # "1054" => drv.processed = 0)
    /\ [][ /\ drv'.processed # drv.processed =>
                 /\ drv'.processed = drv.processed + 1
                 /\ semNewDataReady /\ ~semNewDataReady'
                 /\ thr.run = "state" /\ thr'.state = "1054"
           /\ (semNewDataReady /\ ~semNewDataReady') =>
                 drv'.processed = drv.processed + 1
           /\ (~semNewDataReady /\ semNewDataReady') =>
                 thr.run = "recv" /\ parsed'
           /\ (thr.run = "recv" /\ rx # <<>> /\ rx' # rx /\ parsed') =>
                 semNewDataReady'
           /\ (thr.run = "state" /\ semNewDataReady /\ thr'.state = "1054") =>
                 drv'.processed = drv.processed + 1
         ]_vars

\* two epochs were completed while gpsConfigure was waiting; when it had
\* ended, gpsProcessNewSolutionData was called once
C18_Witness ==
    /\ Fed("pvt2")
    /\ hist.parseCalls = inflight.base.parseCalls + 2
    /\ hist.doneAt = "1046"
    /\ thr.state = "1054" /\ drv.ended # "no"
    /\ drv.processed = 1
    /\ ~semNewDataReady

(***************************************************************************)
(* The driver with link restarts: gpsRestartUBLOX, lines 1061-1066, is     *)
(* called by the generic GPS code between two calls of gpsHandleUBLOX      *)
(***************************************************************************)
MaxRestarts == 1

\* ptSemaphoreInit and the two ptRestart calls; the observation of the link
\* session starts afresh
gpsRestartUBLOX ==
    /\ thr.run = "idle"
    /\ drv.restarts < MaxRestarts
    /\ semNewDataReady' = FALSE
    /\ thr' = ThrInit("idle")
    /\ drv' = [DrvInit EXCEPT !.restarts = drv.restarts + 1]
    /\ UNCHANGED <<decVars, gpsSol, gpsStats, next_fix_type, _new_position,
                   _new_speed, _ack_state, _ack_waiting_msg, capGalileo, gpsState,
                   port, cmdVars, rx, parsed, hist, inflight, nSent>>

\* a module that answers the version poll and is silent on configuration
\* commands
ModuleIdentifies ==
    /\ tx # <<>>
    /\ Head(tx)[3] = CLASS_MON /\ Head(tx)[4] = MSG_VER
    /\ ModuleAnswers

InitRestart == InitWith({AutoConfigured}, "idle", {HW_00080000})

NextRestart ==
    \/ gpsHandleUBLOX
    \/ gpsProtocolReceiverThread
    \/ ptWait_982
    \/ gpsProtocolStateThread
    \/ ModuleIdentifies
    \/ gpsRestartUBLOX

SpecRestart == InitRestart /\ [][NextRestart]_vars

\* C15: gpsRestartUBLOX, called in any state, leaves all driver state at its
\* initial value: the decoder in sync search with no partial frame, both
\* epoch latches clear, the pending fix type none, the ack record reset, the
\* hardware version unknown, capGalileo false, the semaphore empty and both
\* threads at their beginning.
C15_RestartResets ==
    [][ drv'.restarts > drv.restarts =>
          /\ _step' = 0 /\ ~_skip_packet'
          /\ _payload_length' = 0 /\ _payload_counter' = 0
          /\ _ck_a' = 0 /\ _ck_b' = 0
          /\ ~_new_position' /\ ~_new_speed'
          /\ next_fix_type' = GPS_NO_FIX
          /\ _ack_state' = UBX_ACK_WAITING /\ _ack_waiting_msg' = 0
          /\ gpsState'.hwVersion = UBX_HW_VERSION_UNKNOWN
          /\ ~capGalileo'
          /\ ~semNewDataReady'
          /\ thr' = ThrInit("idle")
      ]_vars

(***************************************************************************)
(* The driver with a module that also sends acknowledge frames nobody      *)
(* asked for                                                               *)
(***************************************************************************)
MaxStrays == 1

\* an acknowledge and a negative acknowledge naming CFG-MSG, the id of
\* thirteen commands of the sequence and of no other
StrayUnits ==
    { Unit("stray", UbxFrame(CLASS_ACK, id, AckPayload(CLASS_CFG, MSG_CFG_SET_RATE)),
           [id |-> id, msg |-> MSG_CFG_SET_RATE]) :
        id \in {MSG_ACK_ACK, MSG_ACK_NACK} }

ModuleStrays ==
    /\ module.strays < MaxStrays
    /\ thr.run # "state"
    /\ \E u \in StrayUnits : Put(u)
    /\ module' = [module EXCEPT !.strays = @ + 1]
    /\ UNCHANGED <<decVars, mapVars, thrVars, send_buffer, tx, parsed, hist, drv>>

InitStray == InitWith({AutoConfigured}, "idle", {HW_00080000})

NextStray ==
    \/ gpsHandleUBLOX
    \/ gpsProtocolReceiverThread
    \/ ptWait_982
    \/ gpsProtocolStateThread
    \/ ModuleAnswers
    \/ ModuleStrays

SpecStray == InitStray /\ [][NextStray]_vars

\* C7: a command sent leaves the ack state waiting; while it waits for the
\* command with id X, an acknowledge frame naming X makes it acknowledged, a
\* negative-acknowledge frame naming X makes it negative-acknowledged, and an
\* acknowledge or negative-acknowledge frame naming another id leaves it
\* waiting; once it is acknowledged or negative-acknowledged nothing changes
\* it until the next command is sent.
C7_AckTracker ==
    [][ LET sent == Len(drv'.log) > Len(drv.log)
            dispatched == hist'.parseCalls > hist.parseCalls
            X == drv.log[Len(drv.log)].id
            names == _buffer'[1]
            ackFrame == dispatched /\ _class' = CLASS_ACK /\ _msg_id' = MSG_ACK_ACK
            nakFrame == dispatched /\ _class' = CLASS_ACK /\ _msg_id' = MSG_ACK_NACK
        IN  /\ sent => /\ _ack_state' = UBX_ACK_WAITING
                       /\ _ack_waiting_msg' = drv'.log[Len(drv'.log)].id
            /\ (~sent /\ drv.log # <<>>) =>
                  /\ (_ack_state = UBX_ACK_WAITING /\ ackFrame /\ names = X)
                        => _ack_state' = UBX_ACK_GOT_ACK
                  /\ (_ack_state = UBX_ACK_WAITING /\ nakFrame /\ names = X)
                        => _ack_state' = UBX_ACK_GOT_NAK
                  /\ (_ack_state = UBX_ACK_WAITING /\ (ackFrame \/ nakFrame)
                         /\ names # X)
                        => _ack_state' = UBX_ACK_WAITING
                  /\ _ack_state \in {UBX_ACK_GOT_ACK, UBX_ACK_GOT_NAK}
                        => _ack_state' = _ack_state
      ]_vars

\* C22: one command is tracked at a time.  When command B has been sent
\* after an earlier command A of the sequence and the module has not yet
\* replied to B, no frame changes the ack state: an acknowledge or negative
\* acknowledge that names A leaves the step that waits on B waiting.
C22_OneCommandTracked ==
    [][ ( /\ Len(CfgLog) >= 3
          /\ _ack_state = UBX_ACK_WAITING
          /\ tx # <<>>
          /\ drv'.log = drv.log )
        => _ack_state' = UBX_ACK_WAITING
      ]_vars

\* the command was acknowledged, and a negative acknowledge naming it that
\* came afterwards has left the state acknowledged
C7_Witness ==
    /\ Fed("stray") /\ inflight.args.id = MSG_ACK_NACK
    /\ drv.log # <<>> /\ drv.log[Len(drv.log)].id = MSG_CFG_SET_RATE
    /\ hist.lastId = MSG_ACK_NACK /\ hist.ackBefore = UBX_ACK_GOT_ACK
    /\ _ack_state = UBX_ACK_GOT_ACK

(***************************************************************************)
(* The driver with a module that acknowledges: every configuration command *)
(* is answered with an acknowledge naming it, the version poll with the    *)
(* version or not at all; once gpsConfigure has ended the module sends     *)
(* navigation epochs                                                       *)
(***************************************************************************)
\* line 1075: a protothread is stopped when it has run into its ptEnd (line
\* 994 or line 1058)
ptIsStopped(t) == t.state = "end"

ModuleAcks ==
    /\ tx # <<>>
    /\ thr.run # "state"
    /\ \E u \in {r \in Replies(Head(tx)) : r.kind # "nak"} : Put(u)
    /\ tx' = Tail(tx)
    /\ UNCHANGED <<decVars, mapVars, thrVars, send_buffer, module, parsed, hist, drv>>

ModuleSendsFixes ==
    /\ drv.ended # "no"
    /\ thr.state = "1054"
    /\ thr.run # "state"
    /\ module.epochs < MaxEpochs
    /\ \E u \in {e \in EpochUnits : e.kind = "pvt"} : Put(u)
    /\ module' = [module EXCEPT !.epochs = @ + 1]
    /\ UNCHANGED <<decVars, mapVars, thrVars, send_buffer, tx, parsed, hist, drv>>

InitAcked == InitWith({AutoBaudConfigured}, "idle", ModuleHw)

NextAcked ==
    \/ gpsHandleUBLOX
    \/ gpsProtocolReceiverThread
    \/ ptWait_982
    \/ gpsProtocolStateThread
    \/ ModuleAcks
    \/ ModuleSendsFixes

\* the module takes the oldest command off the line and answers it
ModuleReplies ==
    /\ tx # <<>> /\ rx = <<>>
    /\ thr.run # "state"
    /\ tx' = Tail(tx)

\* a call of the state thread leaves the wait for the empty transmit buffer
\* (lines 1004, 1014, 1024) or the delay of line 1017
BaudWaitEnds ==
    /\ thr.run = "state"
    /\ thr.state \in {"begin", "1014", "1017"}
    /\ thr' \in Positions /\ thr'.state # thr.state

\* a call of the state thread ends the ptWaitTimeout of line 1042: it polls
\* again or it spawns gpsConfigure
PollWaitEnds ==
    /\ thr.run = "state"
    /\ thr.state = "1042"
    /\ thr' \in Positions
    /\ gpsState' \in {gpsState, [gpsState EXCEPT !.autoConfigStep = @ + 1]}
    /\ (thr'.state # "1042" \/ gpsState' # gpsState)

\* both tasks are scheduled again and again, the transmit buffer empties,
\* the timers run out, and the module answers what it was sent
SpecAcked ==
    /\ InitAcked /\ [][NextAcked]_vars
    /\ WF_vars(gpsHandleUBLOX)
    /\ WF_vars(gpsProtocolReceiverThread)
    /\ WF_vars(ptWait_982)
    /\ WF_thr(StateThreadReturns)
    /\ SF_thr(BaudWaitEnds)
    /\ SF_<<thr, gpsState>>(PollWaitEnds)
    /\ SF_tx(ModuleReplies)

\* C28: with autoConfig set, a transmit buffer that empties and a module
\* that acknowledges every configuration command, gpsConfigure ends, and it
\* ends after a bounded number of commands; from then on every completed
\* epoch is followed by a call of gpsProcessNewSolutionData; neither
\* protothread is ever stopped, the state thread is always at one of its
\* waits between two calls.
C28_ConfigurationEnds ==
    /\ <>(drv.ended # "no")
    /\ [](/\ ~ptIsStopped(thr)
          /\ thr.run # "state" => At(thr.state, thr.cfg) \in Positions
          /\ Len(CfgLog) <= 17
          /\ drv.ended # "no" => drv.ended = "cond" \/ drv.ended = "timeout")
    /\ \A k \in 0..MaxEpochs :
          (semNewDataReady /\ drv.ended # "no" /\ drv.processed = k)
              ~> (drv.processed = k + 1)

\* gpsConfigure has ended with every command acknowledged or timed out at
\* the SBAS step, an epoch was completed after that and
\* gpsProcessNewSolutionData was called for it
C28_Witness ==
    /\ gpsState.gpsConfig.autoConfig
    /\ drv.ended # "no"
    /\ thr.state = "1054"
    /\ module.epochs = 1
    /\ drv.processed = 1
    /\ ~semNewDataReady
    /\ tx = <<>>

====
